---------------------------- MODULE Spec2Model ----------------------------
(***************************************************************************)
(* A model of the earned-media diagnostic engine:                          *)
(*   - vertical_analysis.py        Pass 1 (schema resolver, states,        *)
(*                                 modifiers)                              *)
(*   - orchestra_signals_engine.py Pass 2 (windows, signals)               *)
(*   - app.py                      the upload / pass-1 / pass-2 web        *)
(*                                 surface with its background worker      *)
(*                                                                         *)
(* Conventions.                                                            *)
(*   Text (a header, a label, a path) is a sequence of one-character       *)
(*   strings, so that replace / startswith / strip / difflib are computed  *)
(*   as the code computes them.                                            *)
(*   A float is an integer number of thousandths (2.5 is 2500).            *)
(*   A cell of a table is a record [k, n, s]: k = "num" with value n,      *)
(*   k = "str" with text s, or k = "nan" (an empty CSV cell).              *)
(***************************************************************************)
EXTENDS Integers, Sequences, FiniteSets, TLC

(***************************************************************************)
(* Generic helpers                                                         *)
(***************************************************************************)
Range(f) == {f[i] : i \in DOMAIN f}

SetMax(S) == CHOOSE m \in S : \A o \in S : m >= o

SetMin(S) == CHOOSE m \in S : \A o \in S : m <= o

Abs(n) == IF n < 0 THEN -n ELSE n

\* number of indices of a sequence that satisfy a test
RECURSIVE SeqSum(_)
SeqSum(q) == IF q = <<>> THEN 0 ELSE Head(q) + SeqSum(Tail(q))

\* the subsequence of q whose elements satisfy Test, in order
SelectSeq2(q, Test(_)) == SelectSeq(q, Test)

(***************************************************************************)
(* Text                                                                    *)
(***************************************************************************)
\* The characters that occur, in code-point order.
Alphabet ==
  << " ", "(", ")", "-", ".", "/",
     "0", "1", "2", "3", "4", "5", "6", "7", "8", "9",
     "A", "B", "C", "D", "E", "F", "G", "H", "I", "J", "K", "L", "M",
     "N", "O", "P", "Q", "R", "S", "T", "U", "V", "W", "X", "Y", "Z",
     "_",
     "a", "b", "c", "d", "e", "f", "g", "h", "i", "j", "k", "l", "m",
     "n", "o", "p", "q", "r", "s", "t", "u", "v", "w", "x", "y", "z" >>

Ord(c) == CHOOSE i \in DOMAIN Alphabet : Alphabet[i] = c

IsDigit(c) == c \in {"0", "1", "2", "3", "4", "5", "6", "7", "8", "9"}

IsUpper(c) == Ord(c) >= Ord("A") /\ Ord(c) <= Ord("Z")

\* str.lower() on one character
LowerChar(c) == IF IsUpper(c) THEN Alphabet[Ord(c) - Ord("A") + Ord("a")] ELSE c

\* str.lower()
Lower(s) == [i \in DOMAIN s |-> LowerChar(s[i])]

\* str.strip(): leading and trailing blanks removed
RECURSIVE LStrip(_)
LStrip(s) == IF s # <<>> /\ Head(s) = " " THEN LStrip(Tail(s)) ELSE s

RECURSIVE RStrip(_)
RStrip(s) ==
  IF s # <<>> /\ s[Len(s)] = " " THEN RStrip(SubSeq(s, 1, Len(s) - 1)) ELSE s

Strip(s) == RStrip(LStrip(s))

\* str.startswith / str.endswith
StartsWith(s, p) == Len(p) <= Len(s) /\ SubSeq(s, 1, Len(p)) = p

EndsWith(s, p) == Len(p) <= Len(s) /\ SubSeq(s, Len(s) - Len(p) + 1, Len(s)) = p

\* the least of a set of indices, 0 when there is none
FirstIndex(hits) == IF hits = {} THEN 0 ELSE SetMin(hits)

\* str.find, 1-based; 0 when sub does not occur
Find(s, sub) ==
  FirstIndex({i \in 1..(Len(s) - Len(sub) + 1) : SubSeq(s, i, i + Len(sub) - 1) = sub})

\* `sub in s'
Contains(s, sub) == Find(s, sub) # 0

\* str.replace(old, new): every non-overlapping occurrence, left to right;
\* i is the place of the first one
RECURSIVE Replace(_, _, _)
ReplaceFrom(s, old, new, i) ==
  IF i = 0 THEN s
  ELSE SubSeq(s, 1, i - 1) \o new \o Replace(SubSeq(s, i + Len(old), Len(s)), old, new)

Replace(s, old, new) == ReplaceFrom(s, old, new, Find(s, old))

\* s < t in Python's string order
RECURSIVE StrLess(_, _)
StrLess(s, t) ==
  IF t = <<>> THEN FALSE
  ELSE IF s = <<>> THEN TRUE
  ELSE IF Head(s) = Head(t) THEN StrLess(Tail(s), Tail(t))
  ELSE Ord(Head(s)) < Ord(Head(t))

\* sorted(set_of_strings)
RECURSIVE SortedStrings(_)
SortedStrings(S) ==
  IF S = {} THEN <<>>
  ELSE LET m == CHOOSE x \in S : \A y \in S : x = y \/ StrLess(x, y)
       IN <<m>> \o SortedStrings(S \ {m})

\* `x in list'
InList(x, q) == \E i \in DOMAIN q : q[i] = x

(***************************************************************************)
(* difflib.SequenceMatcher (no junk: autojunk needs 200 elements)          *)
(***************************************************************************)
\* length of the common run of a and b that starts at a[i], b[j]
RECURSIVE RunLen(_, _, _, _, _, _)
RunLen(a, b, i, j, ahi, bhi) ==
  IF i > ahi \/ j > bhi THEN 0
  ELSE IF a[i] # b[j] THEN 0
  ELSE 1 + RunLen(a, b, i + 1, j + 1, ahi, bhi)

\* the longest of the candidate blocks <<i, j, size>>, earliest in a, then
\* earliest in b
BestBlock(cand) ==
  LET k  == SetMax({c[3] : c \in cand})
      i0 == SetMin({c[1] : c \in {d \in cand : d[3] = k}})
      j0 == SetMin({c[2] : c \in {d \in cand : d[3] = k /\ d[1] = i0}})
  IN <<i0, j0, k>>

\* find_longest_match(alo, ahi, blo, bhi) as <<i, j, size>>
LongestMatch(a, b, alo, ahi, blo, bhi) ==
  BestBlock({<<i, j, RunLen(a, b, i, j, ahi, bhi)>> : i \in alo..ahi, j \in blo..bhi})

\* the number of matched characters of get_matching_blocks: the longest
\* block m, and the blocks to its left and to its right
RECURSIVE MatchCount(_, _, _, _, _, _)
MatchCountAround(a, b, alo, ahi, blo, bhi, m) ==
  IF m[3] = 0 THEN 0
  ELSE m[3]
       + MatchCount(a, b, alo, m[1] - 1, blo, m[2] - 1)
       + MatchCount(a, b, m[1] + m[3], ahi, m[2] + m[3], bhi)

MatchCount(a, b, alo, ahi, blo, bhi) ==
  IF alo > ahi \/ blo > bhi THEN 0
  ELSE MatchCountAround(a, b, alo, ahi, blo, bhi,
                        LongestMatch(a, b, alo, ahi, blo, bhi))

\* ratio() = 2*M/T as the pair <<2*M, T>>
Ratio(a, b) == <<2 * MatchCount(a, b, 1, Len(a), 1, Len(b)), Len(a) + Len(b)>>

\* r1 >= r2 for ratios
RatioGeq(r1, r2) == r1[1] * r2[2] >= r2[1] * r1[2]

(***************************************************************************)
(* String literals of vertical_analysis.py                                 *)
(***************************************************************************)
\* "Entity_"
L_Entity == <<"E", "n", "t", "i", "t", "y", "_">>

\* "Enity_"
L_Enity == <<"E", "n", "i", "t", "y", "_">>

\* "Narrative_"
L_Narrative == <<"N", "a", "r", "r", "a", "t", "i", "v", "e", "_">>

\* "Narrtaive_"
L_Narrtaive == <<"N", "a", "r", "r", "t", "a", "i", "v", "e", "_">>

\* "Prominence"
L_Prominence == <<"P", "r", "o", "m", "i", "n", "e", "n", "c", "e">>

\* "Sentiment"
L_Sentiment == <<"S", "e", "n", "t", "i", "m", "e", "n", "t">>

\* "Description"
L_Description == <<"D", "e", "s", "c", "r", "i", "p", "t", "i", "o", "n">>

\* "Quality_Score"
L_Quality_Score == <<"Q", "u", "a", "l", "i", "t", "y", "_", "S", "c", "o", "r", "e">>

\* "Qulaity_Score"
L_Qulaity_Score == <<"Q", "u", "l", "a", "i", "t", "y", "_", "S", "c", "o", "r", "e">>

\* "State"
L_State == <<"S", "t", "a", "t", "e">>

\* "Modifier"
L_Modifier == <<"M", "o", "d", "i", "f", "i", "e", "r">>

\* "_Super"
L__Super == <<"_", "S", "u", "p", "e", "r">>

\* "_State"
L__State == <<"_", "S", "t", "a", "t", "e">>

\* "__State"
L___State == <<"_", "_", "S", "t", "a", "t", "e">>

\* "_Modifier"
L__Modifier == <<"_", "M", "o", "d", "i", "f", "i", "e", "r">>

\* "_Quality_Score"
L__Quality_Score == <<"_", "Q", "u", "a", "l", "i", "t", "y", "_", "S", "c", "o", "r", "e">>

\* "_Quality"
L__Quality == <<"_", "Q", "u", "a", "l", "i", "t", "y">>

\* "_Qulaity_Score"
L__Qulaity_Score == <<"_", "Q", "u", "l", "a", "i", "t", "y", "_", "S", "c", "o", "r", "e">>

\* "_Prominence"
L__Prominence == <<"_", "P", "r", "o", "m", "i", "n", "e", "n", "c", "e">>

\* "_Sentiment"
L__Sentiment == <<"_", "S", "e", "n", "t", "i", "m", "e", "n", "t">>

\* "Company-Level"
L_CompanyLevel == <<"C", "o", "m", "p", "a", "n", "y", "-", "L", "e", "v", "e", "l">>

\* "O_Overall"
L_O_Overall == <<"O", "_", "O", "v", "e", "r", "a", "l", "l">>

\* "Message"
L_Message == <<"M", "e", "s", "s", "a", "g", "e">>

\* "_Present"
L__Present == <<"_", "P", "r", "e", "s", "e", "n", "t">>

\* "_Sentiment_Normalized"
L__Sentiment_Normalized == <<"_", "S", "e", "n", "t", "i", "m", "e", "n", "t", "_", "N", "o", "r", "m", "a", "l", "i", "z", "e", "d">>

\* "Topic_Prominence"
L_Topic_Prominence == <<"T", "o", "p", "i", "c", "_", "P", "r", "o", "m", "i", "n", "e", "n", "c", "e">>

\* "Topic_Sentiment"
L_Topic_Sentiment == <<"T", "o", "p", "i", "c", "_", "S", "e", "n", "t", "i", "m", "e", "n", "t">>

\* "Topic_State"
L_Topic_State == <<"T", "o", "p", "i", "c", "_", "S", "t", "a", "t", "e">>

\* "Topic_Sate"
L_Topic_Sate == <<"T", "o", "p", "i", "c", "_", "S", "a", "t", "e">>

\* "Outlet score"
L_Outlet_score == <<"O", "u", "t", "l", "e", "t", " ", "s", "c", "o", "r", "e">>

\* "Pub_Tier"
L_Pub_Tier == <<"P", "u", "b", "_", "T", "i", "e", "r">>

\* "Body - Length - Words"
L_Body_Length_Words == <<"B", "o", "d", "y", " ", "-", " ", "L", "e", "n", "g", "t", "h", " ", "-", " ", "W", "o", "r", "d", "s">>

\* "Orchestra_Pub_Tier"
L_Orchestra_Pub_Tier == <<"O", "r", "c", "h", "e", "s", "t", "r", "a", "_", "P", "u", "b", "_", "T", "i", "e", "r">>

\* "O_Overall - Overall-Level Prominence"
L_O_Overall_Prominence == <<"O", "_", "O", "v", "e", "r", "a", "l", "l", " ", "-", " ", "O", "v", "e", "r", "a", "l", "l", "-", "L", "e", "v", "e", "l", " ", "P", "r", "o", "m", "i", "n", "e", "n", "c", "e">>

\* "O_Overall - Overall-Level Sentiment"
L_O_Overall_Sentiment == <<"O", "_", "O", "v", "e", "r", "a", "l", "l", " ", "-", " ", "O", "v", "e", "r", "a", "l", "l", "-", "L", "e", "v", "e", "l", " ", "S", "e", "n", "t", "i", "m", "e", "n", "t">>

(***************************************************************************)
(* Labels and derived column names of vertical_analysis.py                 *)
(***************************************************************************)
\* "Absent"
S_Absent == <<"A", "b", "s", "e", "n", "t">>

\* "High Risk"
S_HighRisk == <<"H", "i", "g", "h", " ", "R", "i", "s", "k">>

\* "Risky"
S_Risky == <<"R", "i", "s", "k", "y">>

\* "Healthy"
S_Healthy == <<"H", "e", "a", "l", "t", "h", "y">>

\* "Ambient Risk"
S_AmbientRisk == <<"A", "m", "b", "i", "e", "n", "t", " ", "R", "i", "s", "k">>

\* "Niche"
S_Niche == <<"N", "i", "c", "h", "e">>

\* "Peripheral"
S_Peripheral == <<"P", "e", "r", "i", "p", "h", "e", "r", "a", "l">>

\* "Undetermined"
S_Undetermined == <<"U", "n", "d", "e", "t", "e", "r", "m", "i", "n", "e", "d">>

\* "Off-Stage"
S_OffStage == <<"O", "f", "f", "-", "S", "t", "a", "g", "e">>

\* "Offstage"
S_Offstage == <<"O", "f", "f", "s", "t", "a", "g", "e">>

\* "Under Fire"
S_UnderFire == <<"U", "n", "d", "e", "r", " ", "F", "i", "r", "e">>

\* "Leader"
S_Leader == <<"L", "e", "a", "d", "e", "r">>

\* "Supporting Player"
S_SupportingPlayer == <<"S", "u", "p", "p", "o", "r", "t", "i", "n", "g", " ", "P", "l", "a", "y", "e", "r">>

\* "Not Relevant"
M_NotRelevant == <<"N", "o", "t", " ", "R", "e", "l", "e", "v", "a", "n", "t">>

\* "Narrative Drift"
M_NarrativeDrift == <<"N", "a", "r", "r", "a", "t", "i", "v", "e", " ", "D", "r", "i", "f", "t">>

\* "Framing Risk"
M_FramingRisk == <<"F", "r", "a", "m", "i", "n", "g", " ", "R", "i", "s", "k">>

\* "Competitor-Led"
M_CompetitorLed == <<"C", "o", "m", "p", "e", "t", "i", "t", "o", "r", "-", "L", "e", "d">>

\* "Missed Opportunity"
M_MissedOpportunity == <<"M", "i", "s", "s", "e", "d", " ", "O", "p", "p", "o", "r", "t", "u", "n", "i", "t", "y">>

\* "Guilt by Association"
M_GuiltByAssociation == <<"G", "u", "i", "l", "t", " ", "b", "y", " ", "A", "s", "s", "o", "c", "i", "a", "t", "i", "o", "n">>

\* "Innocent Bystander"
M_InnocentBystander == <<"I", "n", "n", "o", "c", "e", "n", "t", " ", "B", "y", "s", "t", "a", "n", "d", "e", "r">>

\* "Reporter-Led Risk"
M_ReporterLedRisk == <<"R", "e", "p", "o", "r", "t", "e", "r", "-", "L", "e", "d", " ", "R", "i", "s", "k">>

\* "Overlooked"
M_Overlooked == <<"O", "v", "e", "r", "l", "o", "o", "k", "e", "d">>

\* "Strategic Signal"
M_StrategicSignal == <<"S", "t", "r", "a", "t", "e", "g", "i", "c", " ", "S", "i", "g", "n", "a", "l">>

\* "Low-Heat Visibility"
M_LowHeatVisibility == <<"L", "o", "w", "-", "H", "e", "a", "t", " ", "V", "i", "s", "i", "b", "i", "l", "i", "t", "y">>

\* "Check the Box"
M_CheckTheBox == <<"C", "h", "e", "c", "k", " ", "t", "h", "e", " ", "B", "o", "x">>

\* "Background Noise"
M_BackgroundNoise == <<"B", "a", "c", "k", "g", "r", "o", "u", "n", "d", " ", "N", "o", "i", "s", "e">>

\* "Narrative Shaper"
M_NarrativeShaper == <<"N", "a", "r", "r", "a", "t", "i", "v", "e", " ", "S", "h", "a", "p", "e", "r">>

\* "Takedown"
M_Takedown == <<"T", "a", "k", "e", "d", "o", "w", "n">>

\* "Body Blow"
M_BodyBlow == <<"B", "o", "d", "y", " ", "B", "l", "o", "w">>

\* "Stinger"
M_Stinger == <<"S", "t", "i", "n", "g", "e", "r">>

\* "Light Jab"
M_LightJab == <<"L", "i", "g", "h", "t", " ", "J", "a", "b">>

\* "Collateral Damage"
M_CollateralDamage == <<"C", "o", "l", "l", "a", "t", "e", "r", "a", "l", " ", "D", "a", "m", "a", "g", "e">>

\* "Peripheral Hit"
M_PeripheralHit == <<"P", "e", "r", "i", "p", "h", "e", "r", "a", "l", " ", "H", "i", "t">>

\* "Narrative Setter"
M_NarrativeSetter == <<"N", "a", "r", "r", "a", "t", "i", "v", "e", " ", "S", "e", "t", "t", "e", "r">>

\* "Breakthrough"
M_Breakthrough == <<"B", "r", "e", "a", "k", "t", "h", "r", "o", "u", "g", "h">>

\* "Great Story"
M_GreatStory == <<"G", "r", "e", "a", "t", " ", "S", "t", "o", "r", "y">>

\* "Good Story"
M_GoodStory == <<"G", "o", "o", "d", " ", "S", "t", "o", "r", "y">>

\* "Routine Positive"
M_RoutinePositive == <<"R", "o", "u", "t", "i", "n", "e", " ", "P", "o", "s", "i", "t", "i", "v", "e">>

\* "offstage"
L_offstage == <<"o", "f", "f", "s", "t", "a", "g", "e">>

\* "off stage"
L_off_stage == <<"o", "f", "f", " ", "s", "t", "a", "g", "e">>

\* "nan"
L_nan == <<"n", "a", "n">>

\* "Topic_Present"
L_Topic_Present == <<"T", "o", "p", "i", "c", "_", "P", "r", "e", "s", "e", "n", "t">>

\* "Topic_Sentiment_Normalized"
L_Topic_Sentiment_Normalized == <<"T", "o", "p", "i", "c", "_", "S", "e", "n", "t", "i", "m", "e", "n", "t", "_", "N", "o", "r", "m", "a", "l", "i", "z", "e", "d">>

\* "Any_Narrative_Present"
L_Any_Narrative_Present == <<"A", "n", "y", "_", "N", "a", "r", "r", "a", "t", "i", "v", "e", "_", "P", "r", "e", "s", "e", "n", "t">>

\* "tracked_entities_in_article"
L_tracked_entities_in_article == <<"t", "r", "a", "c", "k", "e", "d", "_", "e", "n", "t", "i", "t", "i", "e", "s", "_", "i", "n", "_", "a", "r", "t", "i", "c", "l", "e">>

\* "prominent_tracked_entities_in_article"
L_prominent_tracked_entities_in_article == <<"p", "r", "o", "m", "i", "n", "e", "n", "t", "_", "t", "r", "a", "c", "k", "e", "d", "_", "e", "n", "t", "i", "t", "i", "e", "s", "_", "i", "n", "_", "a", "r", "t", "i", "c", "l", "e">>

\* "Central_Narrative_Key"
L_Central_Narrative_Key == <<"C", "e", "n", "t", "r", "a", "l", "_", "N", "a", "r", "r", "a", "t", "i", "v", "e", "_", "K", "e", "y">>

\* "Central_Narrative_Prominence"
L_Central_Narrative_Prominence == <<"C", "e", "n", "t", "r", "a", "l", "_", "N", "a", "r", "r", "a", "t", "i", "v", "e", "_", "P", "r", "o", "m", "i", "n", "e", "n", "c", "e">>

\* "Central_Narrative_Sentiment"
L_Central_Narrative_Sentiment == <<"C", "e", "n", "t", "r", "a", "l", "_", "N", "a", "r", "r", "a", "t", "i", "v", "e", "_", "S", "e", "n", "t", "i", "m", "e", "n", "t">>

\* "validation_notes"
L_validation_notes == <<"v", "a", "l", "i", "d", "a", "t", "i", "o", "n", "_", "n", "o", "t", "e", "s">>

\* "is_valid_row"
L_is_valid_row == <<"i", "s", "_", "v", "a", "l", "i", "d", "_", "r", "o", "w">>

\* "topic_prominence_out_of_range"
N_topic_prominence_out_of_range == <<"t", "o", "p", "i", "c", "_", "p", "r", "o", "m", "i", "n", "e", "n", "c", "e", "_", "o", "u", "t", "_", "o", "f", "_", "r", "a", "n", "g", "e">>

\* "topic_sentiment_out_of_range"
N_topic_sentiment_out_of_range == <<"t", "o", "p", "i", "c", "_", "s", "e", "n", "t", "i", "m", "e", "n", "t", "_", "o", "u", "t", "_", "o", "f", "_", "r", "a", "n", "g", "e">>

\* "outlet_score_out_of_range"
N_outlet_score_out_of_range == <<"o", "u", "t", "l", "e", "t", "_", "s", "c", "o", "r", "e", "_", "o", "u", "t", "_", "o", "f", "_", "r", "a", "n", "g", "e">>

\* "prominent_count_exceeds_tracked"
N_prominent_count_exceeds_tracked == <<"p", "r", "o", "m", "i", "n", "e", "n", "t", "_", "c", "o", "u", "n", "t", "_", "e", "x", "c", "e", "e", "d", "s", "_", "t", "r", "a", "c", "k", "e", "d">>

(***************************************************************************)
(* Schema resolver (vertical_analysis.py)                                  *)
(***************************************************************************)
\* Python's None, and any falsy match
NONE == <<>>

US == <<"_">>

Spaces == {" "}

Digits == {"0", "1", "2", "3", "4", "5", "6", "7", "8", "9"}

Chars == Range(Alphabet)

Min2(a, b) == IF a <= b THEN a ELSE b

Max2(a, b) == IF a >= b THEN a ELSE b

\* s[m-1:n] of Python for 1-based inclusive m..n, clipped to the text
Slice(s, m, n) ==
  IF m > n \/ m > Len(s) THEN <<>> ELSE SubSeq(s, Max2(m, 1), Min2(n, Len(s)))

\* from(s, p) = s[p-1:]
From(s, p) == Slice(s, p, Len(s))

\* the number of consecutive characters of s from index p that are in C
SpanLen(s, p, C) ==
  LET stops == {i \in p..Len(s) : s[i] \notin C}
  IN IF p > Len(s) THEN 0
     ELSE IF stops = {} THEN Len(s) - p + 1
     ELSE SetMin(stops) - p

\* the first element of list q that satisfies membership in S, or NONE
RECURSIVE FirstIn(_, _)
FirstIn(q, S) ==
  IF q = <<>> THEN NONE
  ELSE IF Head(q) \in S THEN Head(q)
  ELSE FirstIn(Tail(q), S)

\* typo_variants without the double underscore variant
TypoVariants_NoDoubleUnderscore(target) ==
  << target,
     Replace(target, L_Entity, L_Enity),
     Replace(target, L_Enity, L_Entity),
     Replace(target, L_Narrative, L_Narrtaive),
     Replace(target, L_Narrtaive, L_Narrative),
     target \o <<" ">>,
     Replace(target, L__Quality_Score, L__Quality),
     Replace(target, L__Quality, L__Quality_Score),
     Replace(target, L__Qulaity_Score, L__Quality_Score) >>

\* the typo_variants list of find_best_column_match
TypoVariants(target) ==
  << target,
     Replace(target, L_Entity, L_Enity),
     Replace(target, L_Enity, L_Entity),
     Replace(target, L_Narrative, L_Narrtaive),
     Replace(target, L_Narrtaive, L_Narrative),
     Replace(target, L__State, L___State),
     target \o <<" ">>,
     Replace(target, L__Quality_Score, L__Quality),
     Replace(target, L__Quality, L__Quality_Score),
     Replace(target, L__Qulaity_Score, L__Quality_Score) >>

\* cutoff=0.8 as a ratio <<8, 10>>
FuzzyCutoff == <<8, 10>>

\* SequenceMatcher.real_quick_ratio() = 2*min(la, lb)/(la + lb)
RealQuickRatio(a, b) == <<2 * Min2(Len(a), Len(b)), Len(a) + Len(b)>>

\* x, of ratio rx, is a better get_close_matches result than y, of ratio
\* ry: nlargest on (score, x)
BetterScored(x, rx, y, ry) ==
  IF rx[1] * ry[2] = ry[1] * rx[2] THEN StrLess(y, x)
  ELSE rx[1] * ry[2] > ry[1] * rx[2]

BetterMatch(x, y, word) == BetterScored(x, Ratio(x, word), y, Ratio(y, word))

\* the best of the close matches, or NONE
BestOf(close, word) ==
  IF close = {} THEN NONE
  ELSE CHOOSE c \in close : \A d \in close : c = d \/ BetterMatch(c, d, word)

\* difflib.get_close_matches(word, possibilities, n=1, cutoff=0.8), its
\* only result or NONE.  seq2 is the word, seq1 the possibility;
\* quick_ratio() is an upper bound of ratio() and decides nothing.
GetCloseMatch(word, possibilities) ==
  BestOf({c \in Range(possibilities) :
            /\ RatioGeq(RealQuickRatio(c, word), FuzzyCutoff)
            /\ RatioGeq(Ratio(c, word), FuzzyCutoff)},
         word)

\* find_best_column_match after the direct match failed (lines 84-99):
\* variant is the first typo variant that is a column, or NONE
VariantOrFuzzy(variant, target, available_columns) ==
  IF variant # NONE THEN variant
  ELSE IF EndsWith(target, L__State) \/ EndsWith(target, L__Modifier) THEN NONE
  ELSE GetCloseMatch(target, available_columns)

\* find_best_column_match(target, available_columns)
find_best_column_match(target, available_columns) ==
  IF InList(target, available_columns) THEN target
  ELSE VariantOrFuzzy(FirstIn(TypoVariants(target), Range(available_columns)),
                      target, available_columns)

\* the field alternation of entity_pattern_format1
EntityFieldsFormat1 ==
  {L_Prominence, L_Sentiment, L_Description, L_Quality_Score, L_Qulaity_Score,
   L_State, L_Modifier}

\* the field alternation of narrative_pattern_format1
NarrativeFieldsFormat1 ==
  {L_Prominence, L_Sentiment, L_Description, L_Quality_Score, L_Qulaity_Score,
   L_State}

\* the set {match.group(1)} of re.match(entity_pattern_format1, col):
\* ^(?:Enity_|Entity_)([^_]+?)(?:_Super)?_(?:Prominence|...|Modifier)$
\* ([^_]+? ends at the first underscore after the prefix, whatever follows)
entity_pattern_format1(col) ==
  LET pre  == IF StartsWith(col, L_Enity) THEN L_Enity
              ELSE IF StartsWith(col, L_Entity) THEN L_Entity
              ELSE NONE
      rest == From(col, Len(pre) + 1)
      u    == Find(rest, US)
      name == Slice(rest, 1, u - 1)
      tail == From(rest, u)
  IN IF pre = NONE \/ u <= 1 THEN {}
     ELSE IF \E f \in EntityFieldsFormat1 :
                tail = US \o f \/ tail = L__Super \o US \o f
          THEN {name}
          ELSE {}

\* Matching a regular expression piece by piece: each piece is read from
\* index p of s and gives the index after it; 0 stands for no match.
\* a literal
MatchLit(s, p, lit) ==
  IF p # 0 /\ Slice(s, p, p + Len(lit) - 1) = lit THEN p + Len(lit) ELSE 0

\* [C]*
MatchSpan0(s, p, C) == IF p = 0 THEN 0 ELSE p + SpanLen(s, p, C)

\* [C]+
MatchSpan1(s, p, C) == IF p = 0 \/ SpanLen(s, p, C) = 0 THEN 0 ELSE p + SpanLen(s, p, C)

\* (?:f1|f2|...), none of the alternatives a prefix of another
MatchOneOf(s, p, fields) ==
  LET fs == {f \in fields : StartsWith(From(s, p), f)}
  IN IF p = 0 \/ fs = {} THEN 0 ELSE p + Len(CHOOSE f \in fs : TRUE)

\* the match ends where s ends ($), or anywhere when not anchored
MatchEnd(s, p, anchored) == IF anchored THEN p = Len(s) + 1 ELSE p # 0

\* s, read from index p, matches \s*-\s*Company-Level\s+<one of fields>,
\* to the end of s when anchored ($), as a prefix otherwise
CompanyLevelTail(s, p, fields, anchored) ==
  MatchEnd(s,
    MatchOneOf(s,
      MatchSpan1(s,
        MatchLit(s,
          MatchSpan0(s, MatchLit(s, MatchSpan0(s, p, Spaces), <<"-">>), Spaces),
          L_CompanyLevel),
        Spaces),
      fields),
    anchored)

\* the set {match.group(2)} of re.match(entity_pattern_format2, col):
\* ^(\d+)_([^-\s]+)\s*-\s*Company-Level\s+(?:Prominence|Sentiment)
entity_pattern_format2(col) ==
  LET d    == SpanLen(col, 1, Digits)
      n    == SpanLen(col, d + 2, Chars \ {"-", " "})
      name == Slice(col, d + 2, d + 1 + n)
  IN IF /\ d >= 1
        /\ d + 1 <= Len(col)
        /\ col[d + 1] = "_"
        /\ n >= 1
        /\ CompanyLevelTail(col, d + 2 + n, {L_Prominence, L_Sentiment}, FALSE)
     THEN {name}
     ELSE {}

\* re.match(company_pattern, col) of line 200:
\* ^(\d+)_<company>\s*-\s*Company-Level\s+<field>$
company_pattern(company, field, col) ==
  LET d == SpanLen(col, 1, Digits)
  IN /\ d >= 1
     /\ d + 1 <= Len(col)
     /\ col[d + 1] = "_"
     /\ Slice(col, d + 2, d + 1 + Len(company)) = company
     /\ CompanyLevelTail(col, d + 2 + Len(company), {field}, TRUE)

\* the set {match.group(1)} of re.match(narrative_pattern_format1, col):
\* ^(?:Narrtaive_|Narrative_)([^_]+)_(?:Prominence|...|State)$
narrative_pattern_format1(col) ==
  LET pre  == IF StartsWith(col, L_Narrtaive) THEN L_Narrtaive
              ELSE IF StartsWith(col, L_Narrative) THEN L_Narrative
              ELSE NONE
      rest == From(col, Len(pre) + 1)
      u    == Find(rest, US)
      name == Slice(rest, 1, u - 1)
      tail == From(rest, u)
  IN IF pre = NONE \/ u <= 1 THEN {}
     ELSE IF \E f \in NarrativeFieldsFormat1 : tail = US \o f THEN {name}
     ELSE {}

\* s matches ^O_Overall\s*-\s*Message\s+(\d+)\s+<one of fields>\s*\( and the
\* index after that "(" is returned; 0 when s does not match so far
MessageHead(s, fields) ==
  MatchLit(s,
    MatchSpan0(s,
      MatchOneOf(s,
        MatchSpan1(s,
          MatchSpan1(s,
            MatchSpan1(s,
              MatchLit(s,
                MatchSpan0(s,
                  MatchLit(s, MatchSpan0(s, MatchLit(s, 1, L_O_Overall), Spaces), <<"-">>),
                  Spaces),
                L_Message),
              Spaces),
            Digits),
          Spaces),
        fields),
      Spaces),
    <<"(">>)

\* the description ([^)]+)\)$ that starts at index p of col, stripped, as a
\* set; empty when the rest of col is not of that form
DescriptionFrom(col, p) ==
  IF /\ p # 0
     /\ p <= Len(col) - 1
     /\ col[Len(col)] = ")"
     /\ ~Contains(Slice(col, p, Len(col) - 1), <<")">>)
  THEN {Strip(Slice(col, p, Len(col) - 1))}
  ELSE {}

\* the set {match.group(2).strip()} of re.match(narrative_pattern_format2, col):
\* ^O_Overall\s*-\s*Message\s+(\d+)\s+(?:Prominence|Sentiment)\s*\(([^)]+)\)$
narrative_pattern_format2(col) ==
  DescriptionFrom(col, MessageHead(col, {L_Prominence, L_Sentiment}))

\* the rest of col from index p is <message>), p not 0
MessageFrom(col, p, message) == p # 0 /\ From(col, p) = message \o <<")">>

\* re.match(orchestra_pattern, col) of line 270:
\* ^O_Overall\s*-\s*Message\s+\d+\s+<field>\s*\(<message>\)$
orchestra_pattern(message, field, col) ==
  MessageFrom(col, MessageHead(col, {field}), message)

\* the first column of the list that satisfies Test, or NONE
FirstColumn(columns, Test(_)) ==
  LET hits == {i \in DOMAIN columns : Test(columns[i])}
  IN IF hits = {} THEN NONE ELSE columns[SetMin(hits)]

\* company_names of auto_detect_companies_and_narratives (lines 132-147)
company_names(columns) ==
  UNION {entity_pattern_format1(columns[i]) \cup entity_pattern_format2(columns[i]) :
           i \in DOMAIN columns}

\* message_names of auto_detect_companies_and_narratives (lines 230-245)
message_names(columns) ==
  UNION {narrative_pattern_format1(columns[i]) \cup narrative_pattern_format2(columns[i]) :
           i \in DOMAIN columns}

\* actual_mappings.get(field, default), and `a or b' on matches
OrDefault(match, default) == IF match # NONE THEN match ELSE default

\* one pass of `for prefix in prefix_variants' for an entity field (lines 175-196)
EntityPrefixMatch(prefix, field, columns) ==
  OrDefault(IF field = L_Prominence
            THEN find_best_column_match(prefix \o L__Super \o US \o field, columns)
            ELSE NONE,
            find_best_column_match(prefix \o US \o field, columns))

\* the first column that company_pattern matches (lines 199-204), or NONE
OrchestraEntityMatch(company, field, columns) ==
  LET hits == {i \in DOMAIN columns : company_pattern(company, field, columns[i])}
  IN IF field \in {L_Prominence, L_Sentiment} /\ hits # {}
     THEN columns[SetMin(hits)]
     ELSE NONE

\* best_match of one entity field (lines 170-204), or NONE
EntityBestMatch(company, field, columns) ==
  OrDefault(OrDefault(EntityPrefixMatch(L_Entity \o company, field, columns),
                      EntityPrefixMatch(L_Enity \o company, field, columns)),
            OrchestraEntityMatch(company, field, columns))

\* the fields of an EntityColumnMapping
EntityFields ==
  {L_Quality_Score, L_Prominence, L_Sentiment, L_Description, L_State, L_Modifier}

\* EntityColumnMapping(...) of lines 213-224 from best, the best_match of
\* each field, with the company's name
EntityMappingFrom(company, best) ==
  [ name          |-> company,
    quality_score |-> OrDefault(best[L_Quality_Score],
                                L_Entity \o company \o US \o L_Quality_Score),
    prominence    |-> best[L_Prominence],
    sentiment     |-> best[L_Sentiment],
    description   |-> OrDefault(best[L_Description],
                                L_Entity \o company \o US \o L_Description),
    state         |-> OrDefault(best[L_State], L_Entity \o company \o US \o L_State),
    modifier      |-> OrDefault(best[L_Modifier],
                                L_Entity \o company \o US \o L_Modifier) ]

\* the EntityColumnMapping of one company (lines 165-224)
EntityMapping(company, columns) ==
  EntityMappingFrom(company,
                    [field \in EntityFields |-> EntityBestMatch(company, field, columns)])

\* [m] when the mapping has both required fields (lines 207, 277), else []
IfComplete(m) == IF m.prominence # NONE /\ m.sentiment # NONE THEN <<m>> ELSE <<>>

\* entity_mappings: one mapping per company that has both required fields, in
\* sorted(company_names) order (a dict keeps insertion order)
RECURSIVE EntityMappingsOf(_, _)
EntityMappingsOf(names, columns) ==
  IF names = <<>> THEN <<>>
  ELSE IfComplete(EntityMapping(Head(names), columns))
       \o EntityMappingsOf(Tail(names), columns)

\* the first column that orchestra_pattern matches (lines 268-274), or NONE
OrchestraNarrativeMatch(message, field, columns) ==
  LET hits == {i \in DOMAIN columns : orchestra_pattern(message, field, columns[i])}
  IN IF field \in {L_Prominence, L_Sentiment} /\ hits # {}
     THEN columns[SetMin(hits)]
     ELSE NONE

\* best_match of one narrative field (lines 257-274), or NONE
NarrativeBestMatch(message, field, columns) ==
  OrDefault(OrDefault(find_best_column_match(L_Narrative \o message \o US \o field, columns),
                      find_best_column_match(L_Narrtaive \o message \o US \o field, columns)),
            OrchestraNarrativeMatch(message, field, columns))

\* the fields of a NarrativeColumnMapping
NarrativeFields == {L_Prominence, L_Sentiment, L_Description, L_State}

\* NarrativeColumnMapping(...) of lines 283-297 from best, the best_match of
\* each field, with the key it is stored under
NarrativeMappingFrom(message, best) ==
  LET orchestra == StartsWith(best[L_Prominence], L_O_Overall)
  IN [ key         |-> IF orchestra THEN message ELSE L_Narrative \o message,
       description |-> OrDefault(best[L_Description],
                                 IF orchestra THEN <<>>
                                 ELSE L_Narrative \o message \o US \o L_Description),
       prominence  |-> best[L_Prominence],
       sentiment   |-> best[L_Sentiment],
       state       |-> OrDefault(best[L_State],
                                 IF orchestra THEN <<>>
                                 ELSE L_Narrative \o message \o US \o L_State) ]

\* the NarrativeColumnMapping of one message (lines 250-297)
NarrativeMapping(message, columns) ==
  NarrativeMappingFrom(message,
                       [field \in NarrativeFields |->
                          NarrativeBestMatch(message, field, columns)])

\* dict[key] = value on a dict kept as the list of its values in insertion
\* order: an existing key keeps its place
DictPut(d, m) ==
  IF \E i \in DOMAIN d : d[i].key = m.key
  THEN [i \in DOMAIN d |-> IF d[i].key = m.key THEN m ELSE d[i]]
  ELSE Append(d, m)

\* narrative_mappings and narrative_precedence with the mapping m added, if
\* it has both required fields
WithNarrative(acc, m) ==
  IF m.prominence # NONE /\ m.sentiment # NONE
  THEN [mappings   |-> DictPut(acc.mappings, m),
        precedence |-> Append(acc.precedence, m.key)]
  ELSE acc

\* narrative_mappings and narrative_precedence over sorted(message_names),
\* as [mappings, precedence]
RECURSIVE NarrativeMappingsOf(_, _, _)
NarrativeMappingsOf(names, columns, acc) ==
  IF names = <<>> THEN acc
  ELSE NarrativeMappingsOf(Tail(names), columns,
                           WithNarrative(acc, NarrativeMapping(Head(names), columns)))

\* the three results of auto_detect_companies_and_narratives
Detection(entities, narr) ==
  [ ENTITY_MAPPINGS          |-> entities,
    NARRATIVE_MAPPINGS       |-> narr.mappings,
    NARRATIVE_TIE_PRECEDENCE |-> narr.precedence ]

\* auto_detect_companies_and_narratives(columns): the three results that
\* initialize_mappings_from_csv stores in the module globals
auto_detect_companies_and_narratives(columns) ==
  Detection(EntityMappingsOf(SortedStrings(company_names(columns)), columns),
            NarrativeMappingsOf(SortedStrings(message_names(columns)), columns,
                                [mappings |-> <<>>, precedence |-> <<>>]))

(***************************************************************************)
(* Header lists of the input files                                         *)
(***************************************************************************)
X == <<"X">>
Y == <<"Y">>
A == <<"A">>
Entity_X_Prominence == L_Entity \o X \o L__Prominence
Enity_X_Prominence  == L_Enity \o X \o L__Prominence
Entity_X_Sentiment  == L_Entity \o X \o L__Sentiment
Entity_X_State      == L_Entity \o X \o L__State
Entity_X__State     == L_Entity \o X \o L___State
Entity_X_Modifier   == L_Entity \o X \o L__Modifier
Entity_Y_Prominence == L_Entity \o Y \o L__Prominence
Entity_Y_Sentiment  == L_Entity \o Y \o L__Sentiment
Entity_Y_State      == L_Entity \o Y \o L__State
Entity_Y_Modifier   == L_Entity \o Y \o L__Modifier
Narrative_A_Prominence == L_Narrative \o A \o L__Prominence
Narrative_A_Sentiment  == L_Narrative \o A \o L__Sentiment
Narrative_A_State      == L_Narrative \o A \o L__State

\* the metadata headers every complete input carries
MetaCols == <<L_Outlet_score, L_Pub_Tier, L_Body_Length_Words>>


\* the header lists of the inputs of varied schema
SchemaHeaderList ==
  LET XData == <<Entity_X_Prominence, Entity_X_Sentiment>>
      Topic == <<L_Topic_Prominence, L_Topic_Sentiment>>
  IN << Topic \o XData \o MetaCols,
        <<L_O_Overall_Prominence, L_O_Overall_Sentiment>> \o XData \o MetaCols,
        <<L_Topic_Prominence, L_O_Overall_Prominence, L_Topic_Sentiment,
          L_O_Overall_Sentiment>> \o XData \o MetaCols,
        XData \o MetaCols,
        Topic \o XData \o <<Entity_X__State>> \o MetaCols,
        Topic \o XData \o <<Entity_X_State>> \o MetaCols,
        Topic \o XData \o <<Entity_Y_Prominence, Entity_Y_Sentiment, Entity_Y_State>>
          \o MetaCols,
        Topic \o <<Narrative_A_Prominence, Narrative_A_Sentiment>> \o XData \o MetaCols,
        Topic \o XData \o <<L_Orchestra_Pub_Tier>> \o MetaCols,
        Topic \o XData \o <<L_Orchestra_Pub_Tier, L_Pub_Tier, L_Body_Length_Words>>,
        Topic \o XData \o <<L_Pub_Tier, L_Body_Length_Words>> >>

\* a header list with one header renamed
RenameCols(cols, old, new) ==
  [j \in DOMAIN cols |-> IF cols[j] = old THEN new ELSE cols[j]]

\* the header lists with Entity_X_Prominence misspelled
MisspelledHeaderList ==
  [i \in DOMAIN SchemaHeaderList |->
     RenameCols(SchemaHeaderList[i], Entity_X_Prominence, Enity_X_Prominence)]

\* header lists that lack something: no entity and no narrative; no
\* Pub_Tier
BareHeaderList ==
  << <<L_Topic_Prominence, L_Topic_Sentiment>> \o MetaCols,
     <<L_Topic_Prominence, L_Topic_Sentiment, Entity_X_Prominence, Entity_X_Sentiment,
       L_Outlet_score, L_Body_Length_Words>> >>

\* the header lists of the input files
SchemaHeaders ==
  Range(SchemaHeaderList) \cup {MisspelledHeaderList[1]} \cup Range(BareHeaderList)

\* auto_detect_companies_and_narratives of each header list of hs
RECURSIVE DetectAll(_)
DetectAll(hs) ==
  IF hs = <<>> THEN <<>>
  ELSE (Head(hs) :> auto_detect_companies_and_narratives(Head(hs)))
       @@ DetectAll(Tail(hs))

\* the header list of the files whose rows vary: topic, one narrative and
\* entity X with state columns, entity Y without
CascadeHeaders ==
  <<L_Topic_Prominence, L_Topic_Sentiment, L_Topic_State,
    Narrative_A_Prominence, Narrative_A_Sentiment, Narrative_A_State,
    Entity_X_Prominence, Entity_X_Sentiment, Entity_X_State,
    Entity_Y_Prominence, Entity_Y_Sentiment>> \o MetaCols

\* the header list of the files of the end-to-end scenarios: topic, one
\* narrative, the entity X and its peers Y and Z
Z == <<"Z">>
SeedHeaders ==
  <<L_Topic_Prominence, L_Topic_Sentiment,
    Narrative_A_Prominence, Narrative_A_Sentiment,
    Entity_X_Prominence, Entity_X_Sentiment,
    Entity_Y_Prominence, Entity_Y_Sentiment,
    L_Entity \o Z \o L__Prominence, L_Entity \o Z \o L__Sentiment>> \o MetaCols

\* the header list of the files with three narratives, their columns in
\* the order B, A, C: topic, narratives, the entity X and its peers Y and Z
NB == <<"B">>
NC == <<"C">>
Narrative_B_Prominence == L_Narrative \o NB \o L__Prominence
Narrative_B_Sentiment  == L_Narrative \o NB \o L__Sentiment
Narrative_C_Prominence == L_Narrative \o NC \o L__Prominence
Narrative_C_Sentiment  == L_Narrative \o NC \o L__Sentiment
NarrativeHeaders ==
  <<L_Topic_Prominence, L_Topic_Sentiment,
    Narrative_B_Prominence, Narrative_B_Sentiment,
    Narrative_A_Prominence, Narrative_A_Sentiment,
    Narrative_C_Prominence, Narrative_C_Sentiment,
    Entity_X_Prominence, Entity_X_Sentiment,
    Entity_Y_Prominence, Entity_Y_Sentiment,
    L_Entity \o Z \o L__Prominence, L_Entity \o Z \o L__Sentiment>> \o MetaCols

\* the header lists of the inputs
InputHeaderList ==
  SchemaHeaderList \o MisspelledHeaderList \o <<CascadeHeaders>> \o BareHeaderList
    \o <<SeedHeaders, NarrativeHeaders>>

\* the resolver's result for every header list of the inputs (computed once)
Detected == DetectAll(InputHeaderList)

(***************************************************************************)
(* Tables (pandas DataFrame) and cells                                     *)
(***************************************************************************)
\* a float cell, in thousandths
Num(n) == [k |-> "num", n |-> n, s |-> <<>>]

\* a text cell
Str(s) == [k |-> "str", n |-> 0, s |-> s]

\* an empty cell (NaN)
NaN == [k |-> "nan", n |-> 0, s |-> <<>>]

\* a bool cell
Bool(b) == [k |-> "bool", n |-> IF b THEN 1 ELSE 0, s |-> <<>>]

\* pd.isna(value)
isna(cell) == cell.k = "nan"

\* a table is [cols: the list of headers, rows: the list of rows], a row a
\* function from the headers to cells
HasCol(df, c) == InList(c, df.cols)

\* row.get(col, default)
Get(row, col, default) == IF col \in DOMAIN row THEN row[col] ELSE default

\* the rows from the i-th on, each with the cell vals[i] under col
RECURSIVE PutCol(_, _, _, _)
PutCol(rows, col, vals, i) ==
  IF i > Len(rows) THEN <<>>
  ELSE <<(col :> vals[i]) @@ rows[i]>> \o PutCol(rows, col, vals, i + 1)

\* df[col] = values, where Value(row) is the new cell of a row: an existing
\* column is overwritten in place, a new one is appended
SetCol(df, col, Value(_)) ==
  [ cols |-> IF HasCol(df, col) THEN df.cols ELSE Append(df.cols, col),
    rows |-> PutCol(df.rows, col, [i \in DOMAIN df.rows |-> Value(df.rows[i])], 1) ]

(***************************************************************************)
(* Utility functions (vertical_analysis.py)                                *)
(***************************************************************************)
\* coerce_float(value): NaN and text that float() rejects give 0.0; a bool is
\* 1.0 or 0.0.  (Text cells of the model are never numerals.)
coerce_float(value) ==
  IF value.k = "num" THEN value.n
  ELSE IF value.k = "bool" THEN 1000 * value.n
  ELSE 0

is_present(prominence_value) == prominence_value > 0

normalize_sentiment_weak_collapse(raw_sentiment) ==
  IF raw_sentiment = 0 THEN 0
  ELSE IF 10 <= raw_sentiment /\ raw_sentiment <= 1000 THEN 1000
  ELSE IF -1000 <= raw_sentiment /\ raw_sentiment <= -10 THEN -1000
  ELSE raw_sentiment

gated_sentiment(prominence, sentiment) == IF prominence > 0 THEN sentiment ELSE 0

(***************************************************************************)
(* State assignment (vertical_analysis.py)                                 *)
(***************************************************************************)
\* assign_topic_state with sentiment -2.0 counted as High Risk
assign_topic_state_HighRiskAtMinus2(topic_present, topic_prom, topic_sent) ==
  IF ~topic_present THEN S_Absent
  ELSE IF topic_prom >= 2500 /\ topic_sent <= -2000 THEN S_HighRisk
  ELSE IF topic_prom >= 2500 /\ 0 > topic_sent /\ topic_sent >= -2000 THEN S_Risky
  ELSE IF topic_prom >= 2500 /\ topic_sent >= 0 THEN S_Healthy
  ELSE IF topic_prom < 2500 /\ topic_sent < 0 THEN S_AmbientRisk
  ELSE IF topic_prom < 2500 /\ topic_sent >= 0 THEN S_Niche
  ELSE S_Undetermined

assign_topic_state(topic_present, topic_prom, topic_sent) ==
  IF ~topic_present THEN S_Absent
  ELSE IF topic_prom >= 2500 /\ topic_sent < -2000 THEN S_HighRisk
  ELSE IF topic_prom >= 2500 /\ 0 > topic_sent /\ topic_sent >= -2000 THEN S_Risky
  ELSE IF topic_prom >= 2500 /\ topic_sent >= 0 THEN S_Healthy
  ELSE IF topic_prom < 2500 /\ topic_sent < 0 THEN S_AmbientRisk
  ELSE IF topic_prom < 2500 /\ topic_sent >= 0 THEN S_Niche
  ELSE S_Undetermined

assign_narrative_state(narr_present, narr_prom, narr_sent) ==
  IF ~narr_present THEN S_Absent
  ELSE IF narr_prom >= 2500 /\ narr_sent < -2000 THEN S_HighRisk
  ELSE IF narr_prom >= 2500 /\ 0 > narr_sent /\ narr_sent >= -2000 THEN S_Risky
  ELSE IF narr_prom >= 2500 /\ narr_sent >= 0 THEN S_Healthy
  ELSE IF narr_prom < 2500 /\ narr_sent < 0 THEN S_AmbientRisk
  ELSE IF narr_prom < 2500 /\ narr_sent >= 0 THEN S_Peripheral
  ELSE S_Undetermined

\* max(list, default=0.0)
MaxOr0(q) == IF q = <<>> THEN 0 ELSE SetMax(Range(q))

\* assign_entity_state with Leader only above prominence 3
assign_entity_state_LeaderAbove3(entity_prom, entity_sent, topic_prom, tracked_narr_proms) ==
  IF topic_prom > 0 /\ entity_prom = 0
  THEN (IF MaxOr0(tracked_narr_proms) > 0 THEN S_OffStage ELSE S_Absent)
  ELSE IF entity_prom > 0 /\ entity_sent < 0 THEN S_UnderFire
  ELSE IF entity_prom > 3000 /\ entity_sent > 0 THEN S_Leader
  ELSE IF 0 < entity_prom /\ entity_prom < 3000 /\ entity_sent > 0 THEN S_SupportingPlayer
  ELSE S_Undetermined

\* assign_entity_state without the topic condition of its first branch
assign_entity_state_AnyTopic(entity_prom, entity_sent, topic_prom, tracked_narr_proms) ==
  IF entity_prom = 0
  THEN (IF MaxOr0(tracked_narr_proms) > 0 THEN S_OffStage ELSE S_Absent)
  ELSE IF entity_prom > 0 /\ entity_sent < 0 THEN S_UnderFire
  ELSE IF entity_prom >= 3000 /\ entity_sent > 0 THEN S_Leader
  ELSE IF 0 < entity_prom /\ entity_prom < 3000 /\ entity_sent > 0 THEN S_SupportingPlayer
  ELSE S_Undetermined

assign_entity_state(entity_prom, entity_sent, topic_prom, tracked_narr_proms) ==
  LET max_narr_prom == MaxOr0(tracked_narr_proms)
  IN IF topic_prom > 0 /\ entity_prom = 0
     THEN (IF max_narr_prom > 0 THEN S_OffStage ELSE S_Absent)
     ELSE IF entity_prom > 0 /\ entity_sent < 0 THEN S_UnderFire
     ELSE IF entity_prom >= 3000 /\ entity_sent > 0 THEN S_Leader
     ELSE IF 0 < entity_prom /\ entity_prom < 3000 /\ entity_sent > 0 THEN S_SupportingPlayer
     ELSE S_Undetermined

(***************************************************************************)
(* Modifier assignment (vertical_analysis.py)                              *)
(***************************************************************************)
assign_absent_modifier(topic_prom, topic_sent) ==
  IF topic_prom < 2000 THEN M_NotRelevant
  ELSE IF topic_sent >= 0 THEN M_NarrativeDrift
  ELSE M_FramingRisk

assign_off_stage_modifier(dominant_narr_prom, dominant_narr_sent, peer_count_prom_ge_2) ==
  IF dominant_narr_sent >= 0 /\ peer_count_prom_ge_2 >= 1 THEN M_CompetitorLed
  ELSE IF dominant_narr_sent >= 0 /\ dominant_narr_prom >= 2500 /\ peer_count_prom_ge_2 = 0
       THEN M_MissedOpportunity
  ELSE IF dominant_narr_sent < 0 /\ peer_count_prom_ge_2 >= 2 THEN M_GuiltByAssociation
  ELSE IF dominant_narr_sent < 0 /\ peer_count_prom_ge_2 = 1 THEN M_InnocentBystander
  ELSE IF dominant_narr_sent < 0 /\ dominant_narr_prom >= 2500 /\ peer_count_prom_ge_2 = 0
       THEN M_ReporterLedRisk
  ELSE IF dominant_narr_prom < 2500 /\ peer_count_prom_ge_2 = 0 THEN M_Overlooked
  ELSE <<>>

assign_supporting_player_modifier(outlet, sent) ==
  IF outlet >= 3000 /\ sent >= 3000 THEN M_StrategicSignal
  ELSE IF outlet >= 3000 /\ 500 <= sent /\ sent < 3000 THEN M_LowHeatVisibility
  ELSE IF outlet < 3000 /\ sent >= 3000 THEN M_CheckTheBox
  ELSE IF outlet < 3000 /\ 500 <= sent /\ sent < 3000 THEN M_BackgroundNoise
  ELSE <<>>

\* assign_under_fire_modifier with the Body Blow test ahead of the Takedown test
assign_under_fire_modifier_BodyBlowFirst(prom, sent, outlet) ==
  IF prom >= 4000 /\ sent <= -3000 /\ outlet = 5000 THEN M_NarrativeShaper
  ELSE IF prom >= 3000 /\ sent <= -2000 /\ outlet > 2000 THEN M_BodyBlow
  ELSE IF prom >= 3000 /\ sent <= -2000 /\ outlet = 4000 THEN M_Takedown
  ELSE IF prom >= 2000 /\ sent <= -2000 /\ outlet <= 3000 THEN M_Stinger
  ELSE IF prom >= 2000 /\ -2000 < sent /\ sent < 0 THEN M_LightJab
  ELSE IF prom < 2000 /\ sent <= -2000 THEN M_CollateralDamage
  ELSE IF prom < 2000 /\ -2000 < sent /\ sent < 0 THEN M_PeripheralHit
  ELSE IF (prom >= 2000 /\ prom < 3000) /\ sent <= -2000 /\ outlet >= 4000 THEN M_Stinger
  ELSE <<>>

\* assign_under_fire_modifier without its last test, the bridge
assign_under_fire_modifier_NoBridge(prom, sent, outlet) ==
  IF prom >= 4000 /\ sent <= -3000 /\ outlet = 5000 THEN M_NarrativeShaper
  ELSE IF prom >= 3000 /\ sent <= -2000 /\ outlet = 4000 THEN M_Takedown
  ELSE IF prom >= 3000 /\ sent <= -2000 /\ outlet > 2000 THEN M_BodyBlow
  ELSE IF prom >= 2000 /\ sent <= -2000 /\ outlet <= 3000 THEN M_Stinger
  ELSE IF prom >= 2000 /\ -2000 < sent /\ sent < 0 THEN M_LightJab
  ELSE IF prom < 2000 /\ sent <= -2000 THEN M_CollateralDamage
  ELSE IF prom < 2000 /\ -2000 < sent /\ sent < 0 THEN M_PeripheralHit
  ELSE <<>>

assign_under_fire_modifier(prom, sent, outlet) ==
  IF prom >= 4000 /\ sent <= -3000 /\ outlet = 5000 THEN M_NarrativeShaper
  ELSE IF prom >= 3000 /\ sent <= -2000 /\ outlet = 4000 THEN M_Takedown
  ELSE IF prom >= 3000 /\ sent <= -2000 /\ outlet > 2000 THEN M_BodyBlow
  ELSE IF prom >= 2000 /\ sent <= -2000 /\ outlet <= 3000 THEN M_Stinger
  ELSE IF prom >= 2000 /\ -2000 < sent /\ sent < 0 THEN M_LightJab
  ELSE IF prom < 2000 /\ sent <= -2000 THEN M_CollateralDamage
  ELSE IF prom < 2000 /\ -2000 < sent /\ sent < 0 THEN M_PeripheralHit
  ELSE IF (prom >= 2000 /\ prom < 3000) /\ sent <= -2000 /\ outlet >= 4000 THEN M_Stinger
  ELSE <<>>

assign_leader_modifier(prom, sent, outlet) ==
  IF prom >= 4000 /\ sent >= 3000 /\ outlet = 5000 THEN M_NarrativeSetter
  ELSE IF prom >= 4000 /\ sent >= 3000 /\ outlet >= 4000 THEN M_Breakthrough
  ELSE IF prom >= 3000 /\ sent >= 2000 /\ outlet >= 3000 THEN M_GreatStory
  ELSE IF prom >= 3000 /\ (\/ (outlet >= 3000 /\ 1000 <= sent /\ sent < 2000)
                           \/ (outlet < 3000 /\ sent >= 2000))
       THEN M_GoodStory
  ELSE IF prom >= 3000 /\ sent >= 0 THEN M_RoutinePositive
  ELSE <<>>

assign_entity_modifier(entity_state, outlet_score, entity_prom, entity_sent, topic_prom, topic_sent, dominant_narr_prom, dominant_narr_sent, peer_count_prom_ge_2) ==
  IF entity_state = S_Absent THEN assign_absent_modifier(topic_prom, topic_sent)
  ELSE IF entity_state \in {S_OffStage, S_Offstage}
       THEN assign_off_stage_modifier(dominant_narr_prom, dominant_narr_sent,
                                      peer_count_prom_ge_2)
  ELSE IF entity_state = S_SupportingPlayer
       THEN assign_supporting_player_modifier(outlet_score, entity_sent)
  ELSE IF entity_state = S_UnderFire
       THEN assign_under_fire_modifier(entity_prom, entity_sent, outlet_score)
  ELSE IF entity_state = S_Leader
       THEN assign_leader_modifier(entity_prom, entity_sent, outlet_score)
  ELSE <<>>

(***************************************************************************)
(* Pass 1: process (vertical_analysis.py)                                  *)
(*                                                                         *)
(* The module globals are the record G:                                    *)
(*   TOPIC_PROMINENCE_COL, TOPIC_SENTIMENT_COL, OUTLET_SCORE_COL,          *)
(*   ENTITY_MAPPINGS, NARRATIVE_MAPPINGS, NARRATIVE_TIE_PRECEDENCE         *)
(***************************************************************************)
\* the globals as the module is imported (lines 34-45)
InitialGlobals ==
  [ TOPIC_PROMINENCE_COL     |-> L_Topic_Prominence,
    TOPIC_SENTIMENT_COL      |-> L_Topic_Sentiment,
    OUTLET_SCORE_COL         |-> L_Outlet_score,
    ENTITY_MAPPINGS          |-> <<>>,
    NARRATIVE_MAPPINGS       |-> <<>>,
    NARRATIVE_TIE_PRECEDENCE |-> <<>> ]

\* initialize_mappings_from_csv(csv_path): the globals afterwards
initialize_mappings_from_csv(G, columns) ==
  LET d == IF columns \in DOMAIN Detected THEN Detected[columns]
           ELSE auto_detect_companies_and_narratives(columns)
  IN [G EXCEPT !.ENTITY_MAPPINGS          = d.ENTITY_MAPPINGS,
               !.NARRATIVE_MAPPINGS       = d.NARRATIVE_MAPPINGS,
               !.NARRATIVE_TIE_PRECEDENCE = d.NARRATIVE_TIE_PRECEDENCE]

\* NARRATIVE_MAPPINGS[key]
NarrativeOf(G, key) ==
  G.NARRATIVE_MAPPINGS[CHOOSE i \in DOMAIN G.NARRATIVE_MAPPINGS :
                         G.NARRATIVE_MAPPINGS[i].key = key]

\* topic_prominence_col of process (lines 685-696), or NONE
TopicProminenceCol(G, df) ==
  LET IsEntityProminence(c) == StartsWith(c, L_Entity) /\ EndsWith(c, L__Prominence)
  IN IF HasCol(df, G.TOPIC_PROMINENCE_COL) THEN G.TOPIC_PROMINENCE_COL
     ELSE IF HasCol(df, L_O_Overall_Prominence) THEN L_O_Overall_Prominence
     ELSE FirstColumn(df.cols, IsEntityProminence)

\* topic_sentiment_col of process (lines 704-718), or NONE
TopicSentimentCol(G, df) ==
  LET IsTopicSentiment(c)  == StartsWith(c, L_Topic_Sentiment)
      IsEntitySentiment(c) == StartsWith(c, L_Entity) /\ EndsWith(c, L__Sentiment)
  IN IF HasCol(df, G.TOPIC_SENTIMENT_COL) THEN G.TOPIC_SENTIMENT_COL
     ELSE IF FirstColumn(df.cols, IsTopicSentiment) # NONE
          THEN FirstColumn(df.cols, IsTopicSentiment)
     ELSE IF HasCol(df, L_O_Overall_Sentiment) THEN L_O_Overall_Sentiment
     ELSE FirstColumn(df.cols, IsEntitySentiment)

\* outlet_score_col of process (lines 740-744), or NONE
OutletScoreCol(G, df) ==
  IF HasCol(df, G.OUTLET_SCORE_COL) THEN G.OUTLET_SCORE_COL
  ELSE IF HasCol(df, L_Orchestra_Pub_Tier) THEN L_Orchestra_Pub_Tier
  ELSE NONE

\* the globals with the columns that were found stored (lines 698-749)
Bound(G, tp, ts, os) ==
  [G EXCEPT !.TOPIC_PROMINENCE_COL = IF tp # NONE THEN tp ELSE @,
            !.TOPIC_SENTIMENT_COL  = IF ts # NONE THEN ts ELSE @,
            !.OUTLET_SCORE_COL     = IF os # NONE THEN os ELSE @]

\* the globals after the required-column checks (lines 698-749): a column
\* that was found is stored, also when the checks end in an error
BindGlobals(G, df) ==
  Bound(G, TopicProminenceCol(G, df), TopicSentimentCol(G, df), OutletScoreCol(G, df))

\* the part of a list whose elements are not columns of df
NotColumns(q, df) == SelectSeq(q, LAMBDA c : ~HasCol(df, c))

\* [m.prominence, m.sentiment for m in mappings], flattened
RECURSIVE RequiredColumns(_)
RequiredColumns(mappings) ==
  IF mappings = <<>> THEN <<>>
  ELSE <<Head(mappings).prominence, Head(mappings).sentiment>>
       \o RequiredColumns(Tail(mappings))

\* "Topic_Prominence (or O_Overall - Overall-Level Prominence, or Entity_*_Prominence)"
MISSING_TopicProminence ==
  L_Topic_Prominence \o <<" ", "(", "o", "r", " ">> \o L_O_Overall_Prominence
    \o <<",", " ", "o", "r", " ">> \o L_Entity \o <<"*">> \o L__Prominence \o <<")">>

\* "Topic_Sentiment (or O_Overall - Overall-Level Sentiment, or Entity_*_Sentiment)"
MISSING_TopicSentiment ==
  L_Topic_Sentiment \o <<" ", "(", "o", "r", " ">> \o L_O_Overall_Sentiment
    \o <<",", " ", "o", "r", " ">> \o L_Entity \o <<"*">> \o L__Sentiment \o <<")">>

\* "Outlet score (or Orchestra_Pub_Tier)"
MISSING_OutletScore ==
  L_Outlet_score \o <<" ", "(", "o", "r", " ">> \o L_Orchestra_Pub_Tier \o <<")">>

\* missing_cols of process (lines 680-755); G is the globals after
\* initialize_mappings_from_csv
missing_cols(G, df) ==
  (IF TopicProminenceCol(G, df) = NONE THEN <<MISSING_TopicProminence>> ELSE <<>>)
  \o (IF TopicSentimentCol(G, df) = NONE THEN <<MISSING_TopicSentiment>> ELSE <<>>)
  \o NotColumns(RequiredColumns(G.NARRATIVE_MAPPINGS), df)
  \o NotColumns(RequiredColumns(G.ENTITY_MAPPINGS), df)
  \o (IF OutletScoreCol(G, df) = NONE THEN <<MISSING_OutletScore>> ELSE <<>>)
  \o NotColumns(<<L_Pub_Tier, L_Body_Length_Words>>, df)

\* coerce_float(row.get(col, 0.0))
Val(row, col) == coerce_float(Get(row, col, Num(0)))

\* the Topic_Sate handling of process (lines 771-780)
TopicSateStep(df) ==
  LET Blank(row) == row[L_Topic_Sate].k = "str" /\ Strip(row[L_Topic_Sate].s) = <<>>
  IN IF /\ ~HasCol(df, L_Topic_State)
        /\ HasCol(df, L_Topic_Sate)
        /\ ~(\/ \A i \in DOMAIN df.rows : isna(df.rows[i][L_Topic_Sate])
             \/ \A i \in DOMAIN df.rows : Blank(df.rows[i]))
     THEN SetCol(df, L_Topic_State, LAMBDA row : row[L_Topic_Sate])
     ELSE df

\* Topic_Present and Topic_Sentiment_Normalized (lines 783-786)
TopicPresenceStep(G, df) ==
  SetCol(SetCol(df, L_Topic_Present,
                LAMBDA row : Bool(is_present(coerce_float(row[G.TOPIC_PROMINENCE_COL])))),
         L_Topic_Sentiment_Normalized,
         LAMBDA row : Num(normalize_sentiment_weak_collapse(
                            coerce_float(row[G.TOPIC_SENTIMENT_COL]))))

\* _narr_state_row of process (lines 796-807)
narr_state_row(mapping, row) ==
  LET prom == Val(row, mapping.prominence)
      sent == Val(row, mapping.sentiment)
  IN IF prom = 0 THEN S_Absent
     ELSE assign_narrative_state(is_present(prom), prom, gated_sentiment(prom, sent))

\* one turn of the narrative loop of process (lines 789-809)
NarrativeStep(df, mapping) ==
  LET d1 == SetCol(df, mapping.key \o L__Present,
                   LAMBDA row : Bool(is_present(coerce_float(row[mapping.prominence]))))
      d2 == SetCol(d1, mapping.key \o L__Sentiment_Normalized,
                   LAMBDA row : Num(normalize_sentiment_weak_collapse(
                                      coerce_float(row[mapping.sentiment]))))
  IN SetCol(d2, mapping.state, LAMBDA row : Str(narr_state_row(mapping, row)))

\* the narrative loop of process over NARRATIVE_MAPPINGS.items()
RECURSIVE NarrativeLoop(_, _)
NarrativeLoop(df, mappings) ==
  IF mappings = <<>> THEN df
  ELSE NarrativeLoop(NarrativeStep(df, Head(mappings)), Tail(mappings))

\* Any_Narrative_Present (lines 811-816)
AnyNarrativePresentStep(G, df) ==
  SetCol(df, L_Any_Narrative_Present,
         LAMBDA row : Bool(\E i \in DOMAIN G.NARRATIVE_TIE_PRECEDENCE :
                             coerce_float(row[NarrativeOf(G, G.NARRATIVE_TIE_PRECEDENCE[i]).prominence]) > 0))

\* _topic_state_row of process (lines 819-830)
topic_state_row(G, row) ==
  LET prom == Val(row, G.TOPIC_PROMINENCE_COL)
      sent == Val(row, G.TOPIC_SENTIMENT_COL)
  IN IF prom = 0 THEN S_Absent
     ELSE assign_topic_state(is_present(prom), prom, gated_sentiment(prom, sent))

\* df[TOPIC_STATE_COL] = df.apply(_topic_state_row, axis=1) (line 832)
TopicStateStep(G, df) ==
  SetCol(df, L_Topic_State, LAMBDA row : Str(topic_state_row(G, row)))

\* _entity_presence_counts of process (lines 835-842)
entity_presence_counts(G, row) ==
  LET E == G.ENTITY_MAPPINGS
  IN << Cardinality({i \in DOMAIN E : Val(row, E[i].prominence) > 0}),
        Cardinality({i \in DOMAIN E : Val(row, E[i].prominence) >= 2000}) >>

\* the two count columns (lines 844-846); a count c is the cell Num(1000 * c)
CountsStep(G, df) ==
  SetCol(SetCol(df, L_tracked_entities_in_article,
                LAMBDA row : Num(1000 * entity_presence_counts(G, row)[1])),
         L_prominent_tracked_entities_in_article,
         LAMBDA row : Num(1000 * entity_presence_counts(G, row)[2]))

\* the loop of pick_central_narrative without the tie-break on |sentiment|
RECURSIVE CentralLoop_NoTieBreak(_, _, _, _)
CentralLoop_NoTieBreak(G, row, keys, best) ==
  IF keys = <<>> THEN best
  ELSE LET mapping == NarrativeOf(G, Head(keys))
           prom    == Val(row, mapping.prominence)
           sent    == Val(row, mapping.sentiment)
       IN CentralLoop_NoTieBreak(G, row, Tail(keys),
            IF prom > best.prom
            THEN [key |-> Head(keys), prom |-> prom, sent_for_ties |-> Abs(sent)]
            ELSE best)

\* the loop of pick_central_narrative (lines 433-444) over the rest of
\* NARRATIVE_TIE_PRECEDENCE; best is [key, prom, sent_for_ties]
RECURSIVE CentralLoop(_, _, _, _)
CentralLoop(G, row, keys, best) ==
  IF keys = <<>> THEN best
  ELSE LET mapping == NarrativeOf(G, Head(keys))
           prom    == Val(row, mapping.prominence)
           sent    == Val(row, mapping.sentiment)
       IN CentralLoop(G, row, Tail(keys),
            IF \/ prom > best.prom
               \/ (prom = best.prom /\ Abs(sent) > best.sent_for_ties)
            THEN [key |-> Head(keys), prom |-> prom, sent_for_ties |-> Abs(sent)]
            ELSE best)

\* pick_central_narrative(row) as <<key, prominence, sentiment>>
pick_central_narrative(G, row) ==
  LET best == CentralLoop(G, row, G.NARRATIVE_TIE_PRECEDENCE,
                          [key |-> <<>>, prom |-> -1000, sent_for_ties |-> 0])
  IN IF best.key = <<>> THEN << <<>>, 0, 0 >>
     ELSE << best.key,
             Val(row, NarrativeOf(G, best.key).prominence),
             Val(row, NarrativeOf(G, best.key).sentiment) >>

\* the three Central_Narrative columns (lines 849-852)
CentralStep(G, df) ==
  SetCol(SetCol(SetCol(df, L_Central_Narrative_Key,
                       LAMBDA row : Str(pick_central_narrative(G, row)[1])),
                L_Central_Narrative_Prominence,
                LAMBDA row : Num(pick_central_narrative(G, row)[2])),
         L_Central_Narrative_Sentiment,
         LAMBDA row : Num(pick_central_narrative(G, row)[3]))

\* tracked_narr_proms of _entity_state_row (lines 869-873)
tracked_narr_proms(G, row) ==
  [i \in DOMAIN G.NARRATIVE_TIE_PRECEDENCE |->
     Val(row, NarrativeOf(G, G.NARRATIVE_TIE_PRECEDENCE[i]).prominence)]

\* _entity_state_row of process (lines 862-875)
entity_state_row(G, mapping, row) ==
  LET entity_prom == Val(row, mapping.prominence)
      entity_sent == gated_sentiment(entity_prom, Val(row, mapping.sentiment))
      topic_prom  == Val(row, G.TOPIC_PROMINENCE_COL)
  IN assign_entity_state(entity_prom, entity_sent, topic_prom, tracked_narr_proms(G, row))

\* the dominant narrative loop of _entity_modifier_row (lines 893-900) over
\* the rest of NARRATIVE_TIE_PRECEDENCE; dom is [prom, sent]
RECURSIVE DominantLoop(_, _, _, _)
DominantLoop(G, row, keys, dom) ==
  IF keys = <<>> THEN dom
  ELSE LET narr_mapping == NarrativeOf(G, Head(keys))
           narr_prom    == Val(row, narr_mapping.prominence)
       IN DominantLoop(G, row, Tail(keys),
            IF narr_prom > dom.prom
            THEN [prom |-> narr_prom,
                  sent |-> gated_sentiment(narr_prom, Val(row, narr_mapping.sentiment))]
            ELSE dom)

\* str(value) of a cell that is not NaN.  Text is itself; the text of a
\* number or a bool is not modelled beyond being no state label.
StrOf(cell) == IF cell.k = "str" THEN cell.s ELSE <<"0">>

\* _entity_modifier_row of process (lines 877-921)
entity_modifier_row(G, mapping, row) ==
  LET raw_state    == Get(row, mapping.state, Str(<<>>))
      entity_state == IF ~isna(raw_state) THEN Strip(StrOf(raw_state)) ELSE <<>>
      outlet_score == Val(row, G.OUTLET_SCORE_COL)
      prom         == Val(row, mapping.prominence)
      sent         == gated_sentiment(prom, Val(row, mapping.sentiment))
      topic_prom   == Val(row, G.TOPIC_PROMINENCE_COL)
      topic_sent   == gated_sentiment(topic_prom, Val(row, G.TOPIC_SENTIMENT_COL))
      dom          == DominantLoop(G, row, G.NARRATIVE_TIE_PRECEDENCE,
                                   [prom |-> 0, sent |-> 0])
      E            == G.ENTITY_MAPPINGS
      peer_count_prom_ge_2 ==
        Cardinality({i \in DOMAIN E : /\ E[i].name # mapping.name
                                      /\ Val(row, E[i].prominence) >= 2000})
  IN assign_entity_modifier(entity_state, outlet_score, prom, sent, topic_prom,
                            topic_sent, dom.prom, dom.sent, peer_count_prom_ge_2)

\* mask_missing_state of process (line 930), for one cell
mask_missing_state(cell) == isna(cell) \/ cell = Str(<<>>) \/ cell = Str(L_nan)

\* the hybrid state handling of process (lines 928-934)
HybridStateStep(G, df, mapping) ==
  IF HasCol(df, mapping.state)
  THEN SetCol(df, mapping.state,
              LAMBDA row : IF mask_missing_state(row[mapping.state])
                           THEN Str(entity_state_row(G, mapping, row))
                           ELSE row[mapping.state])
  ELSE SetCol(df, mapping.state, LAMBDA row : Str(entity_state_row(G, mapping, row)))

\* one turn of the entity loop of process (lines 855-938)
EntityStep(G, df, mapping) ==
  LET d1 == SetCol(df, L_Entity \o mapping.name \o L__Present,
                   LAMBDA row : Bool(is_present(coerce_float(row[mapping.prominence]))))
      d2 == SetCol(d1, L_Entity \o mapping.name \o L__Sentiment_Normalized,
                   LAMBDA row : Num(normalize_sentiment_weak_collapse(
                                      coerce_float(row[mapping.sentiment]))))
      d3 == HybridStateStep(G, d2, mapping)
  IN SetCol(d3, mapping.modifier, LAMBDA row : Str(entity_modifier_row(G, mapping, row)))

\* the entity loop of process over ENTITY_MAPPINGS.items()
RECURSIVE EntityLoop(_, _, _)
EntityLoop(G, df, mappings) ==
  IF mappings = <<>> THEN df
  ELSE EntityLoop(G, EntityStep(G, df, Head(mappings)), Tail(mappings))

\* ",".join(notes)
RECURSIVE Join(_, _)
Join(sep, q) ==
  IF q = <<>> THEN <<>>
  ELSE IF Len(q) = 1 THEN q[1]
  ELSE q[1] \o sep \o Join(sep, Tail(q))

\* _validation_notes of process (lines 941-958)
validation_notes(G, row) ==
  LET t_prom    == Val(row, G.TOPIC_PROMINENCE_COL)
      t_sent    == Val(row, G.TOPIC_SENTIMENT_COL)
      outlet    == Val(row, G.OUTLET_SCORE_COL)
      tracked   == Val(row, L_tracked_entities_in_article)
      prominent == Val(row, L_prominent_tracked_entities_in_article)
  IN Join(<<",">>,
       (IF ~(0 <= t_prom /\ t_prom <= 5000)
        THEN <<N_topic_prominence_out_of_range>> ELSE <<>>)
       \o (IF ~(-4000 <= t_sent /\ t_sent <= 4000)
           THEN <<N_topic_sentiment_out_of_range>> ELSE <<>>)
       \o (IF outlet # 0 /\ ~(1000 <= outlet /\ outlet <= 5000)
           THEN <<N_outlet_score_out_of_range>> ELSE <<>>)
       \o (IF prominent > tracked
           THEN <<N_prominent_count_exceeds_tracked>> ELSE <<>>))

\* validation_notes and is_valid_row (lines 960-961)
ValidationStep(G, df) ==
  SetCol(SetCol(df, L_validation_notes, LAMBDA row : Str(validation_notes(G, row))),
         L_is_valid_row,
         LAMBDA row : Bool(Len(Strip(row[L_validation_notes].s)) = 0))

\* normalize_state that only strips
normalize_state_StripOnly(state_value) ==
  IF isna(state_value) THEN state_value ELSE Str(Strip(StrOf(state_value)))

\* normalize_state of process (lines 968-975)
normalize_state(state_value) ==
  IF isna(state_value) THEN state_value
  ELSE LET state_str == Strip(StrOf(state_value))
       IN IF Lower(state_str) \in {L_offstage, L_off_stage}
          THEN Str(S_OffStage)
          ELSE Str(state_str)

\* state normalization of all entity state columns (lines 978-980)
RECURSIVE NormalizeLoop(_, _)
NormalizeLoop(df, mappings) ==
  IF mappings = <<>> THEN df
  ELSE NormalizeLoop(
         IF HasCol(df, Head(mappings).state)
         THEN SetCol(df, Head(mappings).state,
                     LAMBDA row : normalize_state(row[Head(mappings).state]))
         ELSE df,
         Tail(mappings))

\* estimate_prominence of process (lines 993-1011)
estimate_prominence(name, row) ==
  LET present         == Get(row, L_Entity \o name \o L__Present, Bool(FALSE))
      sent_normalized == Get(row, L_Entity \o name \o L__Sentiment_Normalized, Num(0))
      abs_sent        == Abs(coerce_float(sent_normalized))
  IN IF coerce_float(present) = 0 THEN 0
     ELSE IF isna(sent_normalized) THEN 1000
     ELSE IF abs_sent >= 3000 THEN 4000
     ELSE IF abs_sent >= 2000 THEN 3000
     ELSE IF abs_sent >= 1000 THEN 2000
     ELSE 1000

\* the added Entity_<name>_Prominence columns (lines 984-1016)
RECURSIVE AddProminenceLoop(_, _)
AddProminenceLoop(df, mappings) ==
  IF mappings = <<>> THEN df
  ELSE LET name           == Head(mappings).name
           prominence_col == L_Entity \o name \o L__Prominence
       IN AddProminenceLoop(
            IF HasCol(df, prominence_col) THEN df
            ELSE IF HasCol(df, L_Entity \o name \o L__Present)
                 THEN SetCol(df, prominence_col,
                             LAMBDA row : Num(estimate_prominence(name, row)))
                 ELSE SetCol(df, prominence_col, LAMBDA row : Num(0)),
            Tail(mappings))

\* the table that process writes once the required columns are there
\* (lines 771-1016); G is the globals after the required-column checks
Analyse(G, df) ==
  LET d1 == TopicPresenceStep(G, TopicSateStep(df))
      d2 == AnyNarrativePresentStep(G, NarrativeLoop(d1, G.NARRATIVE_MAPPINGS))
      d3 == CentralStep(G, CountsStep(G, TopicStateStep(G, d2)))
      d4 == ValidationStep(G, EntityLoop(G, d3, G.ENTITY_MAPPINGS))
  IN AddProminenceLoop(NormalizeLoop(d4, G.ENTITY_MAPPINGS), G.ENTITY_MAPPINGS)

\* the result of process: the globals afterwards, and either the ValueError
\* (its missing_cols and available_cols) or the table written
Result(G, missing, df) ==
  IF missing # <<>>
  THEN [ G |-> G, error |-> TRUE, missing_cols |-> missing,
         available_cols |-> SortedStrings(Range(df.cols)),
         df |-> [cols |-> <<>>, rows |-> <<>>] ]
  ELSE [ G |-> G, error |-> FALSE, missing_cols |-> <<>>,
         available_cols |-> <<>>, df |-> Analyse(G, df) ]

\* process after initialize_mappings_from_csv (lines 677-1026)
ProcessTable(G, df) == Result(BindGlobals(G, df), missing_cols(G, df), df)

\* process(csv_path) on the table df read from csv_path, run with the module
\* globals G
process(G, df) == ProcessTable(initialize_mappings_from_csv(G, df.cols), df)

(***************************************************************************)
(* Input tables                                                            *)
(***************************************************************************)
\* the row of a header list and a value line
RECURSIVE RowOf(_, _)
RowOf(cols, line) ==
  IF cols = <<>> THEN <<>>
  ELSE (Head(cols) :> Head(line)) @@ RowOf(Tail(cols), Tail(line))

\* the rows of the value lines from the i-th on
RECURSIVE RowsOf(_, _, _)
RowsOf(cols, lines, i) ==
  IF i > Len(lines) THEN <<>>
  ELSE <<RowOf(cols, lines[i])>> \o RowsOf(cols, lines, i + 1)

\* pd.read_csv: the table of a header line and value lines
Table(cols, lines) == [cols |-> cols, rows |-> RowsOf(cols, lines, 1)]

\* the input with one header renamed
Rename(df, old, new) ==
  Table(RenameCols(df.cols, old, new),
        [i \in DOMAIN df.rows |-> [j \in DOMAIN df.cols |-> df.rows[i][df.cols[j]]]])

(***************************************************************************)
(* String literals of orchestra_signals_engine.py                          *)
(***************************************************************************)
\* "Date"
L_Date == <<"D", "a", "t", "e">>

\* "Publication"
L_Publication == <<"P", "u", "b", "l", "i", "c", "a", "t", "i", "o", "n">>

\* "O_Sent"
L_O_Sent == <<"O", "_", "S", "e", "n", "t">>

\* "O_signals"
L_O_signals == <<"O", "_", "s", "i", "g", "n", "a", "l", "s">>

\* "O_M_"
L_O_M_ == <<"O", "_", "M", "_">>

\* "prom"
L_prom == <<"p", "r", "o", "m">>

\* "sent"
L_sent == <<"s", "e", "n", "t">>

\* "signals"
L_signals == <<"s", "i", "g", "n", "a", "l", "s">>

\* "_C_"
L__C_ == <<"_", "C", "_">>

\* "_C_Prom"
L__C_Prom == <<"_", "C", "_", "P", "r", "o", "m">>

\* "_C_Sent"
L__C_Sent == <<"_", "C", "_", "S", "e", "n", "t">>

\* "_Orchestra_Quality_Score"
L__Orchestra_Quality_Score == <<"_", "O", "r", "c", "h", "e", "s", "t", "r", "a", "_", "Q", "u", "a", "l", "i", "t", "y", "_", "S", "c", "o", "r", "e">>

\* "_C_State"
L__C_State == <<"_", "C", "_", "S", "t", "a", "t", "e">>

\* "_C_Modifier"
L__C_Modifier == <<"_", "C", "_", "M", "o", "d", "i", "f", "i", "e", "r">>

\* "_C_signals"
L__C_signals == <<"_", "C", "_", "s", "i", "g", "n", "a", "l", "s">>

\* "_Modifiers"
L__Modifiers == <<"_", "M", "o", "d", "i", "f", "i", "e", "r", "s">>

\* "Quality_score"
L_Quality_score == <<"Q", "u", "a", "l", "i", "t", "y", "_", "s", "c", "o", "r", "e">>

\* "Quality score"
L_Quality_space_score == <<"Q", "u", "a", "l", "i", "t", "y", " ", "s", "c", "o", "r", "e">>

\* "Signals_"
L_Signals_ == <<"S", "i", "g", "n", "a", "l", "s", "_">>

\* "%Y-%m-%d"
F_Ymd == <<"%", "Y", "-", "%", "m", "-", "%", "d">>

\* "%m/%d/%Y"
F_mdY == <<"%", "m", "/", "%", "d", "/", "%", "Y">>

\* "%m/%d/%y"
F_mdy == <<"%", "m", "/", "%", "d", "/", "%", "y">>

\* "%Y-%m-%d %H:%M:%S"
F_YmdHMS == <<"%", "Y", "-", "%", "m", "-", "%", "d", " ", "%", "H", ":", "%", "M", ":", "%", "S">>

\* "%m/%d/%Y %H:%M:%S"
F_mdYHMS == <<"%", "m", "/", "%", "d", "/", "%", "Y", " ", "%", "H", ":", "%", "M", ":", "%", "S">>

\* "Hot"
G_Hot == <<"H", "o", "t">>

\* "Growing"
G_Growing == <<"G", "r", "o", "w", "i", "n", "g">>

\* "Fading"
G_Fading == <<"F", "a", "d", "i", "n", "g">>

\* "Trade-Locked"
G_TradeLocked == <<"T", "r", "a", "d", "e", "-", "L", "o", "c", "k", "e", "d">>

\* "Fragmented Framing"
G_FragmentedFraming == <<"F", "r", "a", "g", "m", "e", "n", "t", "e", "d", " ", "F", "r", "a", "m", "i", "n", "g">>

\* "Coverage Split"
G_CoverageSplit == <<"C", "o", "v", "e", "r", "a", "g", "e", " ", "S", "p", "l", "i", "t">>

\* "Dominant"
G_Dominant == <<"D", "o", "m", "i", "n", "a", "n", "t">>

\* "Captured"
G_Captured == <<"C", "a", "p", "t", "u", "r", "e", "d">>

\* "Unowned"
G_Unowned == <<"U", "n", "o", "w", "n", "e", "d">>

\* "Media-Led"
G_MediaLed == <<"M", "e", "d", "i", "a", "-", "L", "e", "d">>

\* "Fragmented"
G_Fragmented == <<"F", "r", "a", "g", "m", "e", "n", "t", "e", "d">>

\* "Overlapping"
G_Overlapping == <<"O", "v", "e", "r", "l", "a", "p", "p", "i", "n", "g">>

\* "Fatigue"
G_Fatigue == <<"F", "a", "t", "i", "g", "u", "e">>

\* "Dead"
G_Dead == <<"D", "e", "a", "d">>

\* "Strengthening"
G_Strengthening == <<"S", "t", "r", "e", "n", "g", "t", "h", "e", "n", "i", "n", "g">>

\* "Deteriorating"
G_Deteriorating == <<"D", "e", "t", "e", "r", "i", "o", "r", "a", "t", "i", "n", "g">>

\* "Gaining Prominence"
G_GainingProminence == <<"G", "a", "i", "n", "i", "n", "g", " ", "P", "r", "o", "m", "i", "n", "e", "n", "c", "e">>

\* "Narrative Shaping"
G_NarrativeShaping == <<"N", "a", "r", "r", "a", "t", "i", "v", "e", " ", "S", "h", "a", "p", "i", "n", "g">>

\* "Strategic Fallout"
G_StrategicFallout == <<"S", "t", "r", "a", "t", "e", "g", "i", "c", " ", "F", "a", "l", "l", "o", "u", "t">>

\* "Strategic Uplift"
G_StrategicUplift == <<"S", "t", "r", "a", "t", "e", "g", "i", "c", " ", "U", "p", "l", "i", "f", "t">>

\* "Echo (tight)"
G_EchoTight == <<"E", "c", "h", "o", " ", "(", "t", "i", "g", "h", "t", ")">>

\* "Rising Threat"
G_RisingThreat == <<"R", "i", "s", "i", "n", "g", " ", "T", "h", "r", "e", "a", "t">>

\* "Rising Opportunity"
G_RisingOpportunity == <<"R", "i", "s", "i", "n", "g", " ", "O", "p", "p", "o", "r", "t", "u", "n", "i", "t", "y">>

\* "Deepening Exposure"
G_DeepeningExposure == <<"D", "e", "e", "p", "e", "n", "i", "n", "g", " ", "E", "x", "p", "o", "s", "u", "r", "e">>

\* "Strengthening Position"
G_StrengtheningPosition == <<"S", "t", "r", "e", "n", "g", "t", "h", "e", "n", "i", "n", "g", " ", "P", "o", "s", "i", "t", "i", "o", "n">>

\* "Lost Momentum"
G_LostMomentum == <<"L", "o", "s", "t", " ", "M", "o", "m", "e", "n", "t", "u", "m">>

\* "Prominence Spike"
G_ProminenceSpike == <<"P", "r", "o", "m", "i", "n", "e", "n", "c", "e", " ", "S", "p", "i", "k", "e">>

\* "Momentum Gap"
G_MomentumGap == <<"M", "o", "m", "e", "n", "t", "u", "m", " ", "G", "a", "p">>

\* "Framing Cage (tight)"
G_FramingCageTight == <<"F", "r", "a", "m", "i", "n", "g", " ", "C", "a", "g", "e", " ", "(", "t", "i", "g", "h", "t", ")">>

\* "Turbulent Frame (tight)"
G_TurbulentFrameTight == <<"T", "u", "r", "b", "u", "l", "e", "n", "t", " ", "F", "r", "a", "m", "e", " ", "(", "t", "i", "g", "h", "t", ")">>

\* "Wedge Potential"
G_WedgePotential == <<"W", "e", "d", "g", "e", " ", "P", "o", "t", "e", "n", "t", "i", "a", "l">>

\* "Opening Available"
G_OpeningAvailable == <<"O", "p", "e", "n", "i", "n", "g", " ", "A", "v", "a", "i", "l", "a", "b", "l", "e">>

\* "Narrative Vacuum"
G_NarrativeVacuum == <<"N", "a", "r", "r", "a", "t", "i", "v", "e", " ", "V", "a", "c", "u", "u", "m">>

\* "Captured Narrative (article)"
G_CapturedNarrativeArticle == <<"C", "a", "p", "t", "u", "r", "e", "d", " ", "N", "a", "r", "r", "a", "t", "i", "v", "e", " ", "(", "a", "r", "t", "i", "c", "l", "e", ")">>

\* "Narrative Expansion"
G_NarrativeExpansion == <<"N", "a", "r", "r", "a", "t", "i", "v", "e", " ", "E", "x", "p", "a", "n", "s", "i", "o", "n">>

\* "Narrative Fragmentation"
G_NarrativeFragmentation == <<"N", "a", "r", "r", "a", "t", "i", "v", "e", " ", "F", "r", "a", "g", "m", "e", "n", "t", "a", "t", "i", "o", "n">>

\* "Second Fiddle"
G_SecondFiddle == <<"S", "e", "c", "o", "n", "d", " ", "F", "i", "d", "d", "l", "e">>

\* "Peer Pressure"
G_PeerPressure == <<"P", "e", "e", "r", " ", "P", "r", "e", "s", "s", "u", "r", "e">>

\* "Ricochet Risk"
G_RicochetRisk == <<"R", "i", "c", "o", "c", "h", "e", "t", " ", "R", "i", "s", "k">>

\* "Contrast Framing"
G_ContrastFraming == <<"C", "o", "n", "t", "r", "a", "s", "t", " ", "F", "r", "a", "m", "i", "n", "g">>

\* "Polarized Framing"
G_PolarizedFraming == <<"P", "o", "l", "a", "r", "i", "z", "e", "d", " ", "F", "r", "a", "m", "i", "n", "g">>

\* "Cautious Schadenfreude"
G_CautiousSchadenfreude == <<"C", "a", "u", "t", "i", "o", "u", "s", " ", "S", "c", "h", "a", "d", "e", "n", "f", "r", "e", "u", "d", "e">>

\* "Enity_"
L_Enity_ == <<"E", "n", "i", "t", "y", "_">>

\* "Entity_"
L_Entity_ == <<"E", "n", "t", "i", "t", "y", "_">>

\* ", "
L_CommaSpace == <<",", " ">>

\* "/"
L_Slash == <<"/">>

\* "."
L_Dot == <<".">>

\* "data/articles.csv"
L_InputCsv == <<"d", "a", "t", "a", "/", "a", "r", "t", "i", "c", "l", "e", "s", ".", "c", "s", "v">>

(***************************************************************************)
(* Pass 2: cells, dates and windows (orchestra_signals_engine.py)          *)
(***************************************************************************)
WINDOW_DAYS == 30

LOW_TIER == {1, 2}

MID_HIGH_TIER == {3, 4, 5}

ENTITY_SIGNAL_CAP == 3

\* the instants of a day that are told apart: midnight and the later ones
TicksPerDay == 2

\* a list cell (a Python list of texts)
List(q) == [k |-> "list", n |-> 0, s |-> q]

\* a pd.Timestamp cell: the instant t, counted in ticks
Timestamp(t) == [k |-> "ts", n |-> t, s |-> <<>>]

\* pd.NaT
NaT == [k |-> "nat", n |-> 0, s |-> <<>>]

\* the text of the instant t written in the format fmt
DateText(fmt, t) == [k |-> "date", n |-> t, s |-> fmt]

\* None
None == [k |-> "none", n |-> 0, s |-> <<>>]

\* the formats _ensure_datetime tries after "%Y-%m-%d" (line 61)
AltFormats == <<F_mdY, F_mdy, F_YmdHMS, F_mdYHMS>>

\* pd.to_datetime(value, format=fmt, errors="coerce"): a text in another
\* format, or no date text at all, gives NaT
to_datetime(cell, fmt) ==
  IF cell.k = "date" /\ cell.s = fmt THEN Timestamp(cell.n) ELSE NaT

\* pd.to_datetime(value, errors="coerce") without a format
to_datetime_any(cell) ==
  IF cell.k = "date" THEN Timestamp(cell.n)
  ELSE IF cell.k = "ts" THEN cell
  ELSE NaT

\* np.issubdtype(df[col].dtype, np.datetime64)
IsDatetime(df, col) == \A i \in DOMAIN df.rows : df.rows[i][col].k \in {"ts", "nat"}

\* parsed.isna().all() for the column parsed with fmt
AllNaT(df, col, fmt) ==
  \A i \in DOMAIN df.rows : to_datetime(df.rows[i][col], fmt) = NaT

\* the first format of fmts under which some cell parses, or NONE
RECURSIVE FirstParsing(_, _, _)
FirstParsing(df, col, fmts) ==
  IF fmts = <<>> THEN NONE
  ELSE IF ~AllNaT(df, col, Head(fmts)) THEN Head(fmts)
  ELSE FirstParsing(df, col, Tail(fmts))

\* df[date_col] = parsed, parsed under fmt; under NONE every fixed format
\* failed on every cell and the generic parse is used (line 69)
ParsedAs(df, col, fmt) ==
  SetCol(df, col, LAMBDA row : IF fmt = NONE THEN to_datetime_any(row[col])
                               ELSE to_datetime(row[col], fmt))

_ensure_datetime(df, date_col) ==
  IF HasCol(df, date_col) /\ ~IsDatetime(df, date_col)
  THEN ParsedAs(df, date_col, FirstParsing(df, date_col, <<F_Ymd>> \o AltFormats))
  ELSE df

\* timestamp - pd.Timedelta(days=d)
MinusDays(ts, d) == IF ts.k = "ts" THEN Timestamp(ts.n - d * TicksPerDay) ELSE NaT

\* (date >= lo) & (date <= hi); a comparison with NaT is False
InWindow(date, lo, hi) ==
  /\ date.k = "ts" /\ lo.k = "ts" /\ hi.k = "ts"
  /\ date.n >= lo.n /\ date.n <= hi.n

\* df[date_col].max(): NaT cells are skipped, NaT when there is no other
ColMax(df, col) ==
  IF \A i \in DOMAIN df.rows : df.rows[i][col].k # "ts" THEN NaT
  ELSE Timestamp(SetMax({df.rows[i][col].n : i \in {j \in DOMAIN df.rows : df.rows[j][col].k = "ts"}}))

\* the rows of df whose date_col is in [win[1], win[2]]
RowsIn(df, date_col, win) ==
  [ cols |-> df.cols,
    rows |-> SelectSeq(df.rows, LAMBDA row : InWindow(row[date_col], win[1], win[2])) ]

\* lines 104-109 of _window_splits
WindowsFrom(df, date_col, max_date, current_start) ==
  [ df_current |-> RowsIn(df, date_col, <<current_start, max_date>>),
    df_prior   |-> RowsIn(df, date_col, <<MinusDays(current_start, WINDOW_DAYS),
                                          MinusDays(current_start, 1)>>),
    cur_win    |-> <<current_start, max_date>>,
    prev_win   |-> <<MinusDays(current_start, WINDOW_DAYS), MinusDays(current_start, 1)>> ]

\* lines 103-109 of _window_splits, df being _ensure_datetime(df, date_col)
WindowsOf(df, date_col, as_of) ==
  IF as_of # None
  THEN WindowsFrom(df, date_col, to_datetime_any(as_of),
                   MinusDays(to_datetime_any(as_of), WINDOW_DAYS - 1))
  ELSE WindowsFrom(df, date_col, ColMax(df, date_col),
                   MinusDays(ColMax(df, date_col), WINDOW_DAYS - 1))

_window_splits(df, date_col, as_of) ==
  WindowsOf(_ensure_datetime(df, date_col), date_col, as_of)

(***************************************************************************)
(* Pass 2: statistics.  A number is in thousandths; a mean is kept as its  *)
(* sum and count, so that comparisons are exact.                           *)
(***************************************************************************)
\* the cells of a column
Column(rows, col) == [i \in DOMAIN rows |-> rows[i][col]]

\* pd.to_numeric(series, errors="coerce").dropna(), as numbers
Numeric(cells) ==
  [i \in DOMAIN SelectSeq(cells, LAMBDA c : c.k = "num") |->
     SelectSeq(cells, LAMBDA c : c.k = "num")[i].n]

RECURSIVE SumSq(_)
SumSq(q) == IF q = <<>> THEN 0 ELSE Head(q) * Head(q) + SumSq(Tail(q))

\* _mean_safe(series): NaN when count is 0
_mean_safe(cells) == [sum |-> SeqSum(Numeric(cells)), count |-> Len(Numeric(cells))]

\* np.isnan(mean)
IsNaNMean(m) == m.count = 0

\* the mean of no rows
NaNMean == [sum |-> 0, count |-> 0]

\* mean >= c, mean < c, mean > c (False for NaN)
MeanGeq(m, c) == m.count > 0 /\ m.sum >= c * m.count
MeanLt(m, c) == m.count > 0 /\ m.sum < c * m.count
MeanGt(m, c) == m.count > 0 /\ m.sum > c * m.count

\* a - b >= c, a - b <= c, a < b for means (False when one is NaN)
MeanDiffGeq(a, b, c) ==
  a.count > 0 /\ b.count > 0 /\ a.sum * b.count - b.sum * a.count >= c * a.count * b.count
MeanDiffLeq(a, b, c) ==
  a.count > 0 /\ b.count > 0 /\ a.sum * b.count - b.sum * a.count <= c * a.count * b.count
MeanLess(a, b) ==
  a.count > 0 /\ b.count > 0 /\ a.sum * b.count < b.sum * a.count

\* a >= 1.30 * b for means
MeanGeq130(a, b) ==
  a.count > 0 /\ b.count > 0 /\ 100 * a.sum * b.count >= 130 * b.sum * a.count

\* _std_safe(series) >= c: the population variance against c squared
StdOfGeq(v, c) ==
  Len(v) > 0 /\ Len(v) * SumSq(v) - SeqSum(v) * SeqSum(v) >= c * c * Len(v) * Len(v)

StdGeq(cells, c) == StdOfGeq(Numeric(cells), c)

\* q with x put before the first greater element (q ascending)
RECURSIVE Insert(_, _)
Insert(x, q) ==
  IF q = <<>> THEN <<x>>
  ELSE IF x < Head(q) THEN <<x>> \o q
  ELSE <<Head(q)>> \o Insert(x, Tail(q))

\* the numbers of q in ascending order
RECURSIVE Sorted(_)
Sorted(q) == IF q = <<>> THEN <<>> ELSE Insert(Head(q), Sorted(Tail(q)))

\* 4 * np.percentile(v, 25 * quarters) for v ascending and not empty
\* (linear interpolation between the two nearest ranks)
Percentile4(v, quarters) ==
  IF ((Len(v) - 1) * quarters) % 4 = 0
  THEN 4 * v[((Len(v) - 1) * quarters) \div 4 + 1]
  ELSE 4 * v[((Len(v) - 1) * quarters) \div 4 + 1]
       + (((Len(v) - 1) * quarters) % 4)
           * (v[((Len(v) - 1) * quarters) \div 4 + 2] - v[((Len(v) - 1) * quarters) \div 4 + 1])

\* _iqr_safe(series) >= c
IqrOfGeq(v, c) == Len(v) > 0 /\ Percentile4(v, 3) - Percentile4(v, 1) >= 4 * c

IqrGeq(cells, c) == IqrOfGeq(Sorted(Numeric(cells)), c)

\* 2 * median of v, v ascending and not empty
Median2(v) ==
  IF Len(v) % 2 = 1 THEN 2 * v[(Len(v) + 1) \div 2]
  ELSE v[Len(v) \div 2] + v[Len(v) \div 2 + 1]

\* series.between(med - c, med + c), med the median of cells: the test of
\* one cell against twice the median med2 (False when there is no median)
NearMedian(cell, v, c) ==
  /\ cell.k = "num" /\ Len(v) > 0
  /\ 2 * cell.n >= Median2(v) - 2 * c /\ 2 * cell.n <= Median2(v) + 2 * c

\* a share: float(mask.mean()), NaN over no rows
Share(rows, Test(_)) == [sum |-> Len(SelectSeq(rows, Test)), count |-> Len(rows)]

\* share >= p / 100, share <= p / 100 (False for NaN)
ShareGeq(sh, p) == sh.count > 0 /\ 100 * sh.sum >= p * sh.count
ShareLeq(sh, p) == sh.count > 0 /\ 100 * sh.sum <= p * sh.count

\* column.isin(tiers) for one cell
IsIn(cell, tiers) == cell.k = "num" /\ cell.n \in {1000 * t : t \in tiers}

\* cell >= c, cell > c, comparisons of a column with a number (False for NaN)
CellGeq(cell, c) == cell.k = "num" /\ cell.n >= c
CellGt(cell, c) == cell.k = "num" /\ cell.n > c
CellLt(cell, c) == cell.k = "num" /\ cell.n < c

(***************************************************************************)
(* Pass 2: coded columns                                                   *)
(***************************************************************************)
\* int(text) of a text of digits
RECURSIVE ParseInt(_)
ParseInt(digits) ==
  IF digits = <<>> THEN 0
  ELSE 10 * ParseInt(SubSeq(digits, 1, Len(digits) - 1))
       + (Ord(digits[Len(digits)]) - Ord("0"))

\* str(n) of a natural number
RECURSIVE FormatInt(_)
FormatInt(n) ==
  IF n < 10 THEN <<Alphabet[Ord("0") + n]>>
  ELSE FormatInt(n \div 10) \o <<Alphabet[Ord("0") + (n % 10)]>>

\* the numbers of a finite set in ascending order
RECURSIVE SortedInts(_)
SortedInts(S) ==
  IF S = {} THEN <<>> ELSE <<SetMin(S)>> \o SortedInts(S \ {SetMin(S)})

\* _get_narratives(df): the ids n of the columns matching ^O_M_(\d+)
_get_narratives(df) ==
  SortedInts({ParseInt(SubSeq(c, Len(L_O_M_) + 1, Len(L_O_M_) + SpanLen(c, Len(L_O_M_) + 1, Digits))) :
                c \in {d \in Range(df.cols) :
                         StartsWith(d, L_O_M_) /\ SpanLen(d, Len(L_O_M_) + 1, Digits) > 0}})

\* _get_entities(df): the ids e of the columns matching ^(\d+)_C_
_get_entities(df) ==
  SortedInts({ParseInt(SubSeq(c, 1, SpanLen(c, 1, Digits))) :
                c \in {d \in Range(df.cols) :
                         /\ SpanLen(d, 1, Digits) > 0
                         /\ StartsWith(From(d, SpanLen(d, 1, Digits) + 1), L__C_)}})

\* _narr_cols(narrative_id)
_narr_cols(n) ==
  [prom |-> L_O_M_ \o FormatInt(n) \o L_prom, sent |-> L_O_M_ \o FormatInt(n) \o L_sent]

\* _entity_cols(entity_id)
_entity_cols(e) ==
  [ prom     |-> FormatInt(e) \o L__C_Prom,
    sent     |-> FormatInt(e) \o L__C_Sent,
    qual     |-> FormatInt(e) \o L__Orchestra_Quality_Score,
    state    |-> FormatInt(e) \o L__C_State,
    modifier |-> FormatInt(e) \o L__C_Modifier,
    signals  |-> FormatInt(e) \o L__C_signals ]

\* the prominence columns of the narratives / of the entities
NarrPromCols(narratives) == [i \in DOMAIN narratives |-> _narr_cols(narratives[i]).prom]
EntityPromCols(entities) == [i \in DOMAIN entities |-> _entity_cols(entities[i]).prom]

\* (row[cols] > c).sum(), (row[cols] >= c).sum() over a list of columns
CountGt(row, cols, c) == Cardinality({i \in DOMAIN cols : CellGt(row[cols[i]], c)})
CountGeq(row, cols, c) == Cardinality({i \in DOMAIN cols : CellGeq(row[cols[i]], c)})

\* a signals cell as a list (lines 203, 240, 395)
AsList(cell) ==
  IF cell.k = "list" THEN cell
  ELSE IF isna(cell) THEN List(<<>>)
  ELSE List(<<StrOf(cell)>>)

\* the signals column col made a column of lists (lines 200-203, 237-240,
\* 392-395)
EnsureListCol(df, col) ==
  IF ~HasCol(df, col) THEN SetCol(df, col, LAMBDA row : List(<<>>))
  ELSE SetCol(df, col, LAMBDA row : AsList(row[col]))

\* df.loc[mask, col] = df.loc[mask, col].apply(lambda s: s + names)
AppendWhere(df, col, Mask(_), names) ==
  SetCol(df, col, LAMBDA row : IF Mask(row) THEN List(row[col].s \o names) ELSE row[col])

\* <<name>> when cond holds
Opt(cond, name) == IF cond THEN <<name>> ELSE <<>>

\* vol_prev > 0 and vol_cur >= 1.30 * vol_prev
VolumeGrew(vol_cur, vol_prev) == vol_prev > 0 /\ 100 * vol_cur >= 130 * vol_prev

\* vol_prev > 0 and vol_cur <= 0.70 * vol_prev
VolumeFell(vol_cur, vol_prev) == vol_prev > 0 /\ 100 * vol_cur <= 70 * vol_prev

\* the rows of a table under a tier set
InTier(rows, tiers) == SelectSeq(rows, LAMBDA row : IsIn(row[L_Orchestra_Pub_Tier], tiers))

\* avg_prom_low >= 2.5 and avg_prom_mh < 1.5 of column col over rows
TradeLocked(rows, col) ==
  /\ MeanGeq(_mean_safe(Column(InTier(rows, LOW_TIER), col)), 2500)
  /\ MeanLt(_mean_safe(Column(InTier(rows, MID_HIGH_TIER), col)), 1500)

(***************************************************************************)
(* Pass 2: topic signals (compute_topic_signals)                           *)
(***************************************************************************)
\* share_no_narr (lines 190-195)
ShareNoNarrative(cur, narratives) ==
  IF narratives # <<>>
  THEN Share(cur, LAMBDA row : CountGt(row, NarrPromCols(narratives), 0) = 0)
  ELSE NaNMean

\* topic_window_signals (lines 211-221); cur and prev are the rows of the
\* current and the prior window, topic_prom and topic_sent the topic columns
topic_window_signals(cur, prev, topic_prom, topic_sent, narratives) ==
  Opt(VolumeGrew(Len(cur), Len(prev)), G_Growing)
  \o Opt(VolumeFell(Len(cur), Len(prev)), G_Fading)
  \o Opt(TradeLocked(cur, topic_prom), G_TradeLocked)
  \o Opt(StdGeq(Column(cur, topic_prom), 1000) \/ StdGeq(Column(cur, topic_sent), 1500),
         G_FragmentedFraming)
  \o Opt(/\ MeanGeq(_mean_safe(Column(cur, topic_prom)), 2500)
         /\ ShareGeq(ShareNoNarrative(cur, narratives), 30)
         /\ ShareGeq(Share(cur, LAMBDA row : IsIn(row[L_Orchestra_Pub_Tier], LOW_TIER)), 60),
         G_CoverageSplit)

\* lines 199-224, W being _window_splits(df); both topic columns are O_Sent
\* (line 181)
TopicSignals(df, W, topic_prom, topic_sent) ==
  AppendWhere(
    AppendWhere(EnsureListCol(df, L_O_signals), L_O_signals,
                LAMBDA row : CellGeq(row[topic_prom], 3500) /\ CellGeq(row[topic_sent], 3000),
                <<G_Hot>>),
    L_O_signals,
    LAMBDA row : TRUE,
    topic_window_signals(W.df_current.rows, W.df_prior.rows, topic_prom, topic_sent,
                         _get_narratives(df)))

compute_topic_signals(df) ==
  TopicSignals(df, _window_splits(df, L_Date, None), L_O_Sent, L_O_Sent)

(***************************************************************************)
(* Pass 2: narrative signals (compute_narrative_signals)                   *)
(***************************************************************************)
\* df.loc[mask]: the rows of df in the window win whose column col is not NaN
MaskedRows(df, win, col) ==
  SelectSeq(df.rows, LAMBDA row : InWindow(row[L_Date], win[1], win[2]) /\ ~isna(row[col]))

\* no entity has prominence >= 2.5 on the row
NoOwner(row, entities) == CountGeq(row, EntityPromCols(entities), 2500) = 0

\* Captured (lines 265-270): some entity is prominent on half of rows
Captured(rows, entities) ==
  \E i \in DOMAIN entities :
    ShareGeq(Share(rows, LAMBDA row : CellGeq(row[_entity_cols(entities[i]).prom], 2500)), 50)

\* lines 260-280: Captured, Unowned, Media-Led
OwnershipSignals(cur, prom_col, entities) ==
  IF entities # <<>> /\ cur # <<>>
  THEN Opt(/\ SelectSeq(cur, LAMBDA row : CellGeq(row[prom_col], 2500)) # <<>>
           /\ Captured(SelectSeq(cur, LAMBDA row : CellGeq(row[prom_col], 2500)), entities),
           G_Captured)
       \o Opt(ShareGeq(Share(SelectSeq(cur, LAMBDA row : CellGeq(row[prom_col], 2500)),
                             LAMBDA row : NoOwner(row, entities)), 50),
              G_Unowned)
       \o Opt(ShareGeq(Share(SelectSeq(cur, LAMBDA row : CellGt(row[prom_col], 0)),
                             LAMBDA row : NoOwner(row, entities)), 50),
              G_MediaLed)
  ELSE <<>>

\* the prominence columns of the narratives other than n
OtherNarrPromCols(narratives, n) ==
  NarrPromCols(SelectSeq(narratives, LAMBDA nn : nn # n))

\* no_companion_share >= 0.30 (lines 299-300)
NoCompanion(cur, narratives, n) ==
  IF OtherNarrPromCols(narratives, n) # <<>>
  THEN ShareGeq(Share(cur, LAMBDA row : CountGt(row, OtherNarrPromCols(narratives, n), 0) = 0), 30)
  ELSE TRUE

\* lines 283-303: Fragmented, Overlapping, Trade-Locked, Coverage Split
FramingSignals(cur, prom_col, sent_col, narratives, n) ==
  IF cur # <<>>
  THEN Opt(StdGeq(Column(cur, prom_col), 1000) \/ StdGeq(Column(cur, sent_col), 1500),
           G_Fragmented)
       \o Opt(/\ narratives # <<>>
              /\ ShareGeq(Share(cur, LAMBDA row : CountGeq(row, NarrPromCols(narratives), 2000) >= 2),
                          30),
              G_Overlapping)
       \o Opt(TradeLocked(cur, prom_col), G_TradeLocked)
       \o Opt(/\ narratives # <<>>
              /\ MeanGeq(_mean_safe(Column(cur, prom_col)), 2500)
              /\ NoCompanion(cur, narratives, n)
              /\ ShareGeq(Share(cur, LAMBDA row : IsIn(row[L_Orchestra_Pub_Tier], LOW_TIER)), 60),
              G_CoverageSplit)
  ELSE <<>>

\* lines 306-322: Growing, Fatigue, Dead, Strengthening, Deteriorating,
\* Gaining Prominence
TrendSignals(cur, prev, prom_col, sent_col) ==
  Opt(VolumeGrew(Len(cur), Len(prev)), G_Growing)
  \o Opt(VolumeFell(Len(cur), Len(prev)), G_Fatigue)
  \o Opt(cur = <<>>, G_Dead)
  \o (IF cur # <<>> /\ prev # <<>>
      THEN Opt(\/ MeanDiffGeq(_mean_safe(Column(cur, sent_col)),
                              _mean_safe(Column(prev, sent_col)), 1500)
               \/ MeanGeq130(_mean_safe(Column(cur, prom_col)),
                             _mean_safe(Column(prev, prom_col))),
               G_Strengthening)
           \o Opt(MeanDiffGeq(_mean_safe(Column(prev, sent_col)),
                              _mean_safe(Column(cur, sent_col)), 1500),
                  G_Deteriorating)
           \o Opt(/\ MeanGt(_mean_safe(Column(prev, prom_col)), 0)
                  /\ MeanGeq130(_mean_safe(Column(cur, prom_col)),
                                _mean_safe(Column(prev, prom_col))),
                  G_GainingProminence)
      ELSE <<>>)

\* narr_window_signals of narrative n (lines 253-322); cur and prev are the
\* rows under cur_mask and prev_mask
narr_window_signals(cur, prev, prom_col, sent_col, narratives, n, entities) ==
  Opt(\/ ShareGeq(Share(cur, LAMBDA row : CellGt(row[prom_col], 0)), 66)
      \/ ShareGeq(Share(cur, LAMBDA row : CellGeq(row[prom_col], 2500)), 50),
      G_Dominant)
  \o OwnershipSignals(cur, prom_col, entities)
  \o FramingSignals(cur, prom_col, sent_col, narratives, n)
  \o TrendSignals(cur, prev, prom_col, sent_col)

\* one turn of the loop of compute_narrative_signals (lines 235-329)
NarrativeSignals(df, W, n, outcol, cols) ==
  AppendWhere(
    AppendWhere(EnsureListCol(df, outcol), outcol,
                LAMBDA row : CellGeq(row[cols.prom], 3500) /\ CellGeq(row[cols.sent], 3000),
                <<G_Hot>>),
    outcol,
    LAMBDA row : CellGt(row[cols.prom], 0),
    narr_window_signals(MaskedRows(df, W.cur_win, cols.prom),
                        MaskedRows(df, W.prev_win, cols.prom),
                        cols.prom, cols.sent, _get_narratives(df), n, _get_entities(df)))

\* the loop of compute_narrative_signals over the narratives from the i-th
RECURSIVE NarrativeSignalsLoop(_, _, _, _)
NarrativeSignalsLoop(df, W, narratives, i) ==
  IF i > Len(narratives) THEN df
  ELSE NarrativeSignalsLoop(
         NarrativeSignals(df, W, narratives[i],
                          L_O_M_ \o FormatInt(narratives[i]) \o L_signals,
                          _narr_cols(narratives[i])),
         W, narratives, i + 1)

compute_narrative_signals(df) ==
  NarrativeSignalsLoop(df, _window_splits(df, L_Date, None), _get_narratives(df), 1)

(***************************************************************************)
(* Pass 2: entity signals (compute_entity_signals)                         *)
(***************************************************************************)
\* ENTITY_SIGNAL_WEIGHTS: name -> <<severity_weight, structural_weight>>
ENTITY_SIGNAL_WEIGHTS ==
  (G_NarrativeShaping :> <<9, 3>>) @@ (G_StrategicFallout :> <<8, 2>>)
  @@ (G_StrategicUplift :> <<7, 2>>) @@ (G_EchoTight :> <<6, 2>>)
  @@ (G_RisingThreat :> <<7, 2>>) @@ (G_RisingOpportunity :> <<7, 2>>)
  @@ (G_DeepeningExposure :> <<6, 1>>) @@ (G_StrengtheningPosition :> <<6, 1>>)
  @@ (G_LostMomentum :> <<5, 1>>) @@ (G_ProminenceSpike :> <<5, 1>>)
  @@ (G_MomentumGap :> <<5, 1>>) @@ (G_FramingCageTight :> <<8, 3>>)
  @@ (G_TurbulentFrameTight :> <<6, 2>>) @@ (G_WedgePotential :> <<5, 2>>)
  @@ (G_OpeningAvailable :> <<6, 2>>) @@ (G_NarrativeVacuum :> <<4, 1>>)
  @@ (G_CapturedNarrativeArticle :> <<6, 2>>) @@ (G_NarrativeExpansion :> <<6, 2>>)
  @@ (G_NarrativeFragmentation :> <<5, 2>>) @@ (G_SecondFiddle :> <<4, 1>>)
  @@ (G_PeerPressure :> <<4, 1>>) @@ (G_RicochetRisk :> <<5, 2>>)
  @@ (G_ContrastFraming :> <<5, 1>>) @@ (G_PolarizedFraming :> <<6, 2>>)
  @@ (G_CautiousSchadenfreude :> <<5, 2>>)

\* a is ranked strictly before b by (sev, struc, outlet, prom, recency),
\* each descending
RankedBefore(a, b) ==
  \/ a.sev > b.sev
  \/ a.sev = b.sev /\ a.struc > b.struc
  \/ a.sev = b.sev /\ a.struc = b.struc /\ a.outlet > b.outlet
  \/ a.sev = b.sev /\ a.struc = b.struc /\ a.outlet = b.outlet /\ a.prom > b.prom
  \/ a.sev = b.sev /\ a.struc = b.struc /\ a.outlet = b.outlet /\ a.prom = b.prom
       /\ a.recency > b.recency

\* x put into the ranked list q, before the first element that is not
\* ranked before x (x came before the elements of q: the sort is stable)
RECURSIVE InsertRanked(_, _)
InsertRanked(x, q) ==
  IF q = <<>> THEN <<x>>
  ELSE IF RankedBefore(Head(q), x) THEN <<Head(q)>> \o InsertRanked(x, Tail(q))
  ELSE <<x>> \o q

\* df_rank.sort_values(..., kind="mergesort") (lines 349-353)
RECURSIVE SortRanked(_)
SortRanked(q) == IF q = <<>> THEN <<>> ELSE InsertRanked(Head(q), SortRanked(Tail(q)))

\* the names of the first cap entries
FirstNames(q, cap) == [i \in 1..Min2(Len(q), cap) |-> q[i].name]

_rank_and_cap_entity_signals(signals_with_meta) ==
  FirstNames(SortRanked(signals_with_meta), ENTITY_SIGNAL_CAP)

\* float(value or 0.0) of a cell holding a number (an absent cell is 0.0)
FloatOf(cell) == IF cell.k = "num" THEN cell.n ELSE 0

\* str(row.get(col, "")) if col in df.columns else ""
ModOf(df, row, col) ==
  IF ~HasCol(df, col) THEN <<>>
  ELSE IF isna(row[col]) THEN L_nan
  ELSE StrOf(row[col])

\* stats[e] (lines 375-387): the window statistics of the entity with
\* columns c; cur and prev are the rows under cur_mask and prev_mask
StatsFrom(df, c, cur, prev) ==
  [ avg_prom_cur  |-> _mean_safe(Column(cur, c.prom)),
    avg_prom_prev |-> _mean_safe(Column(prev, c.prom)),
    avg_sent_cur  |-> _mean_safe(Column(cur, c.sent)),
    avg_sent_prev |-> _mean_safe(Column(prev, c.sent)),
    avg_q_cur     |-> IF HasCol(df, c.qual) THEN _mean_safe(Column(cur, c.qual)) ELSE NaNMean,
    avg_q_prev    |-> IF HasCol(df, c.qual) THEN _mean_safe(Column(prev, c.qual)) ELSE NaNMean,
    had_HST_prev  |-> /\ HasCol(df, c.modifier)
                      /\ \E i \in DOMAIN prev : ModOf(df, prev[i], c.modifier) = M_Takedown,
    had_Breakthrough_prev |->
                      /\ HasCol(df, c.modifier)
                      /\ \E i \in DOMAIN prev : ModOf(df, prev[i], c.modifier) = M_Breakthrough ]

EntityStats(df, W, c) ==
  StatsFrom(df, c, MaskedRows(df, W.cur_win, c.prom), MaskedRows(df, W.prev_win, c.prom))

\* stats of every entity, as a list in the order of entities
RECURSIVE AllStats(_, _, _, _)
AllStats(df, W, entities, i) ==
  IF i > Len(entities) THEN <<>>
  ELSE <<EntityStats(df, W, _entity_cols(entities[i]))>> \o AllStats(df, W, entities, i + 1)

\* narr_gain[n] (lines 364-370)
NarrGain(df, W, prm) ==
  /\ MeanGt(_mean_safe(Column(MaskedRows(df, W.prev_win, prm), prm)), 0)
  /\ MeanGeq130(_mean_safe(Column(MaskedRows(df, W.cur_win, prm), prm)),
                _mean_safe(Column(MaskedRows(df, W.prev_win, prm), prm)))

RECURSIVE AllNarrGain(_, _, _, _)
AllNarrGain(df, W, narratives, i) ==
  IF i > Len(narratives) THEN <<>>
  ELSE <<NarrGain(df, W, _narr_cols(narratives[i]).prom)>> \o AllNarrGain(df, W, narratives, i + 1)

\* what compute_entity_signals works out before the row loop
\* (lines 358-387)
EntityContext(df, W, entities, narratives) ==
  [ df |-> df, W |-> W, entities |-> entities, narratives |-> narratives,
    stats |-> AllStats(df, W, entities, 1),
    narr_gain |-> AllNarrGain(df, W, narratives, 1) ]

\* row_peers (lines 403-410): prom, sent and mod of every entity on the row
row_peers(ctx, row) ==
  [ i \in DOMAIN ctx.entities |->
      [ prom |-> FloatOf(Get(row, _entity_cols(ctx.entities[i]).prom, Num(0))),
        sent |-> FloatOf(Get(row, _entity_cols(ctx.entities[i]).sent, Num(0))),
        mod  |-> ModOf(ctx.df, row, _entity_cols(ctx.entities[i]).modifier) ] ]

\* row_narr_proms (line 415)
row_narr_proms(ctx, row) ==
  [ i \in DOMAIN ctx.narratives |->
      FloatOf(Get(row, _narr_cols(ctx.narratives[i]).prom, Num(0))) ]

\* the index of the top narrative of the row: narr_sorted[0] of the stable
\* descending sort by prominence (lines 496, 515, 560)
TopNarrative(proms) ==
  SetMin({i \in DOMAIN proms : \A j \in DOMAIN proms : proms[j] <= proms[i]})

\* the modifiers of a peer that make Ricochet Risk (line 468)
RicochetModifiers ==
  {M_NarrativeShaper, M_Takedown, M_BodyBlow, M_Stinger, M_CollateralDamage}

\* lines 426-483: the article-level signals of entity number e of the row;
\* peers is row_peers, proms is row_narr_proms, outlet the tier of the row
ArticleSignals(e, peers, proms, outlet) ==
  Opt(\/ peers[e].mod \in {M_Takedown, M_Breakthrough}
      \/ (peers[e].prom >= 4000 /\ outlet >= 4),
      G_NarrativeShaping)
  \o Opt(/\ peers[e].prom > 0 /\ proms # <<>> /\ \E i \in DOMAIN proms : proms[i] > 0
         /\ \E p \in DOMAIN peers : p # e /\ peers[e].sent - peers[p].sent >= 1500,
         G_WedgePotential)
  \o Opt(/\ peers[e].prom > 0 /\ peers[e].prom < 3000
         /\ SetMax({peers[p].prom : p \in DOMAIN peers} \cup {0}) >= 3000,
         G_SecondFiddle)
  \o Opt(/\ peers[e].prom > 0
         /\ SetMax({peers[p].sent : p \in DOMAIN peers} \cup {0}) >= 2500
         /\ 0 <= peers[e].sent /\ peers[e].sent <= 1000,
         G_PeerPressure)
  \o Opt(\E p \in DOMAIN peers :
           p # e /\ peers[e].prom > 0 /\ Abs(peers[e].sent - peers[p].sent) >= 2000,
         G_ContrastFraming)
  \o Opt(\E p \in DOMAIN peers :
           p # e /\ peers[e].prom > 0 /\ peers[p].sent - peers[e].sent >= 4000,
         G_PolarizedFraming)
  \o (IF peers[e].prom > 0 /\ \E p \in DOMAIN peers : peers[p].mod \in RicochetModifiers
      THEN <<G_RicochetRisk>>
           \o Opt(peers[e].prom = 0 \/ peers[e].sent >= 0, G_CautiousSchadenfreude)
      ELSE <<>>)
  \o Opt(/\ peers[e].prom > 0 /\ peers[e].prom >= 2500
         /\ SetMax({peers[p].prom : p \in DOMAIN peers} \cup {0}) < 2500,
         G_CapturedNarrativeArticle)
  \o Opt(/\ peers[e].prom > 0 /\ proms # <<>> /\ \A i \in DOMAIN proms : proms[i] = 0,
         G_NarrativeVacuum)

\* lines 487-492: Strategic Fallout, Strategic Uplift
StrategicSignals(st) ==
  Opt(st.had_HST_prev /\ MeanDiffLeq(st.avg_q_cur, st.avg_q_prev, -500), G_StrategicFallout)
  \o Opt(st.had_Breakthrough_prev /\ MeanDiffGeq(st.avg_q_cur, st.avg_q_prev, 500),
         G_StrategicUplift)

\* the rows of slice_cur that are tight (lines 503-508): both sentiments
\* within 0.5 of their medians over slice_cur
TightRows(slice_cur, n_sent, e_sent) ==
  SelectSeq(slice_cur,
            LAMBDA r : /\ NearMedian(r[e_sent], Sorted(Numeric(Column(slice_cur, e_sent))), 500)
                       /\ NearMedian(r[n_sent], Sorted(Numeric(Column(slice_cur, n_sent))), 500))

\* _count_distinct_publications(rows)
_count_distinct_publications(rows) ==
  Cardinality({StrOf(rows[i][L_Publication]) :
                 i \in {j \in DOMAIN rows : ~isna(rows[j][L_Publication])}})

\* lines 495-511: Echo (tight); top is the columns of the top narrative
EchoSignal(ctx, top_prom, top, e_sent) ==
  Opt(/\ top_prom >= 2000
      /\ Len(SelectSeq(ctx.df.rows,
                       LAMBDA r : /\ InWindow(r[L_Date], ctx.W.cur_win[1], ctx.W.cur_win[2])
                                  /\ CellGeq(r[top.prom], 2000))) >= 3
      /\ _count_distinct_publications(
           TightRows(SelectSeq(ctx.df.rows,
                               LAMBDA r : /\ InWindow(r[L_Date], ctx.W.cur_win[1], ctx.W.cur_win[2])
                                          /\ CellGeq(r[top.prom], 2000)),
                     top.sent, e_sent)) >= 3,
      G_EchoTight)

\* lines 514-525: Rising Threat, Rising Opportunity
RisingSignals(top_prom, gain, st) ==
  IF top_prom >= 2000 /\ gain /\ ~IsNaNMean(st.avg_sent_cur)
  THEN Opt(MeanLt(st.avg_sent_cur, 0), G_RisingThreat)
       \o Opt(MeanGt(st.avg_sent_cur, 1000), G_RisingOpportunity)
  ELSE <<>>

\* a + b for means held as sum and count
MeanAdd(a, b) == [sum |-> a.sum * b.count + b.sum * a.count, count |-> a.count * b.count]

\* the sum of the means of q that are not NaN
RECURSIVE MeanTotal(_)
MeanTotal(q) ==
  IF q = <<>> THEN [sum |-> 0, count |-> 1]
  ELSE IF IsNaNMean(Head(q)) THEN MeanTotal(Tail(q))
  ELSE MeanAdd(Head(q), MeanTotal(Tail(q)))

\* float(np.mean(means)) over the means of q that are not NaN; NaN if none
MeanOfMeans(q) ==
  IF \A i \in DOMAIN q : IsNaNMean(q[i]) THEN NaNMean
  ELSE [sum |-> MeanTotal(q).sum,
        count |-> MeanTotal(q).count * Cardinality({i \in DOMAIN q : ~IsNaNMean(q[i])})]

\* lines 542-556: Momentum Gap; cur and prev are the avg_prom_cur and
\* avg_prom_prev of the peers
MomentumGap(st, cur, prev) ==
  /\ ~IsNaNMean(MeanOfMeans(cur)) /\ ~IsNaNMean(MeanOfMeans(prev))
  /\ MeanLess(st.avg_prom_cur, MeanOfMeans(cur))
  /\ MeanDiffGeq(MeanOfMeans(cur), MeanOfMeans(prev), 500)
  /\ MeanDiffLeq(st.avg_prom_cur, st.avg_prom_prev, 0)

\* the stats of the entities other than number e
PeerStats(stats, e) ==
  [i \in 1..(Len(stats) - 1) |-> IF i < e THEN stats[i] ELSE stats[i + 1]]

\* lines 528-556: Deepening Exposure, Strengthening Position, Lost
\* Momentum, Prominence Spike, Momentum Gap
MomentumSignals(st, peers) ==
  Opt(MeanDiffGeq(st.avg_sent_prev, st.avg_sent_cur, 1500), G_DeepeningExposure)
  \o Opt(MeanDiffGeq(st.avg_sent_cur, st.avg_sent_prev, 1500), G_StrengtheningPosition)
  \o (IF ~IsNaNMean(st.avg_prom_cur) /\ ~IsNaNMean(st.avg_prom_prev)
      THEN Opt(/\ MeanLess(st.avg_prom_cur, st.avg_prom_prev)
               /\ MeanLess(st.avg_sent_cur, st.avg_sent_prev),
               G_LostMomentum)
           \o Opt(MeanDiffGeq(st.avg_prom_cur, st.avg_prom_prev, 2000), G_ProminenceSpike)
           \o Opt(MomentumGap(st, [i \in DOMAIN peers |-> peers[i].avg_prom_cur],
                              [i \in DOMAIN peers |-> peers[i].avg_prom_prev]),
                  G_MomentumGap)
      ELSE <<>>)

\* lines 559-581: Framing Cage (tight) over sub, the rows of the current
\* window with the top narrative present
FramingCage(sub, e_prom, peer_prom_cols) ==
  /\ sub # <<>>
  /\ ShareGeq(Share(sub, LAMBDA r : /\ CountGeq(r, peer_prom_cols, 3000) > 0
                                    /\ FloatOf(r[e_prom]) < 3000), 60)
  /\ ShareLeq(Share(sub, LAMBDA r : FloatOf(r[e_prom]) >= 3000), 10)

\* the columns of q other than the e-th
Others(q, e) == [i \in 1..(Len(q) - 1) |-> IF i < e THEN q[i] ELSE q[i + 1]]

\* lines 584-590: Turbulent Frame (tight) over the rows under c_mask_e
TurbulentFrame(rows, c) ==
  \/ StdGeq(Column(rows, c.prom), 1000)
  \/ StdGeq(Column(rows, c.sent), 1500)
  \/ IqrGeq(Column(rows, c.sent), 2000)

\* prom_map (lines 595-604): for each narrative with rows in the current
\* window, the means of the entity's prominence and sentiment on its rows
RECURSIVE prom_map(_, _, _)
prom_map(ctx, c, i) ==
  IF i > Len(ctx.narratives) THEN <<>>
  ELSE (IF \E j \in DOMAIN ctx.df.rows :
             /\ InWindow(ctx.df.rows[j][L_Date], ctx.W.cur_win[1], ctx.W.cur_win[2])
             /\ CellGt(ctx.df.rows[j][_narr_cols(ctx.narratives[i]).prom], 0)
        THEN << [ prom |-> _mean_safe(Column(
                             SelectSeq(ctx.df.rows,
                               LAMBDA r : /\ InWindow(r[L_Date], ctx.W.cur_win[1], ctx.W.cur_win[2])
                                          /\ CellGt(r[_narr_cols(ctx.narratives[i]).prom], 0)),
                             c.prom)),
                  sent |-> _mean_safe(Column(
                             SelectSeq(ctx.df.rows,
                               LAMBDA r : /\ InWindow(r[L_Date], ctx.W.cur_win[1], ctx.W.cur_win[2])
                                          /\ CellGt(r[_narr_cols(ctx.narratives[i]).prom], 0)),
                             c.sent)) ] >>
        ELSE <<>>)
       \o prom_map(ctx, c, i + 1)

\* a - b > c for means
MeanDiffGt(a, b, c) ==
  a.count > 0 /\ b.count > 0 /\ a.sum * b.count - b.sum * a.count > c * a.count * b.count

\* lines 605-614: Narrative Expansion, Narrative Fragmentation
SpreadSignals(pm) ==
  Opt(Cardinality({i \in DOMAIN pm : MeanGeq(pm[i].prom, 2500) /\ MeanGt(pm[i].sent, 1000)}) >= 2,
      G_NarrativeExpansion)
  \o Opt(/\ Len(pm) >= 2
         /\ \E i, j \in DOMAIN pm : MeanDiffGt(pm[i].sent, pm[j].sent, 3000)
         /\ \E i \in DOMAIN pm : MeanGeq(pm[i].prom, 2000),
         G_NarrativeFragmentation)

\* the signals that need a narrative (lines 495-525, 559-581, 593-614), in
\* the order of the code, split around the momentum signals; top is the
\* index of the row's top narrative
EchoAndRising(ctx, e, c, proms, top) ==
  EchoSignal(ctx, proms[top], _narr_cols(ctx.narratives[top]), c.sent)
  \o RisingSignals(proms[top], ctx.narr_gain[top], ctx.stats[e])

CageSignal(ctx, e, c, proms, top) ==
  Opt(/\ proms[top] > 0
      /\ FramingCage(SelectSeq(ctx.df.rows,
                       LAMBDA r : /\ InWindow(r[L_Date], ctx.W.cur_win[1], ctx.W.cur_win[2])
                                  /\ CellGt(r[_narr_cols(ctx.narratives[top]).prom], 0)),
                     c.prom, Others(EntityPromCols(ctx.entities), e)),
      G_FramingCageTight)

\* signals_meta of entity number e on the row, as names (lines 424-614)
Candidates(ctx, e, c, row, proms) ==
  ArticleSignals(e, row_peers(ctx, row), proms,
                 FloatOf(Get(row, L_Orchestra_Pub_Tier, Num(0))) \div 1000)
  \o StrategicSignals(ctx.stats[e])
  \o (IF ctx.narratives # <<>> THEN EchoAndRising(ctx, e, c, proms, TopNarrative(proms))
      ELSE <<>>)
  \o MomentumSignals(ctx.stats[e], PeerStats(ctx.stats, e))
  \o (IF ctx.narratives # <<>> THEN CageSignal(ctx, e, c, proms, TopNarrative(proms))
      ELSE <<>>)
  \o Opt(TurbulentFrame(MaskedRows(ctx.df, ctx.W.cur_win, c.prom), c), G_TurbulentFrameTight)
  \o (IF ctx.narratives # <<>> THEN SpreadSignals(prom_map(ctx, c, 1)) ELSE <<>>)

\* the entry of signals_meta for a name: (name, sev, stru, outlet, prom,
\* recency)
Meta(name, outlet, prom, recency) ==
  [ name |-> name, sev |-> ENTITY_SIGNAL_WEIGHTS[name][1],
    struc |-> ENTITY_SIGNAL_WEIGHTS[name][2],
    outlet |-> outlet, prom |-> prom, recency |-> recency ]

\* signals_meta of entity number e on the row
signals_meta(ctx, e, row) ==
  [ i \in DOMAIN Candidates(ctx, e, _entity_cols(ctx.entities[e]), row, row_narr_proms(ctx, row)) |->
      Meta(Candidates(ctx, e, _entity_cols(ctx.entities[e]), row, row_narr_proms(ctx, row))[i],
           FloatOf(Get(row, L_Orchestra_Pub_Tier, Num(0))) \div 1000,
           FloatOf(Get(row, _entity_cols(ctx.entities[e]).prom, Num(0))),
           IF row[L_Date].k = "ts" THEN row[L_Date].n ELSE 0) ]

\* the signals columns of the entities made columns of lists (lines 390-395)
RECURSIVE EnsureEntityLists(_, _, _)
EnsureEntityLists(df, entities, i) ==
  IF i > Len(entities) THEN df
  ELSE EnsureEntityLists(EnsureListCol(df, _entity_cols(entities[i]).signals), entities, i + 1)

\* ranked (line 617) for the entities of a row from the e-th on
RECURSIVE RankedRow(_, _, _)
RankedRow(ctx, row, e) ==
  IF e > Len(ctx.entities) THEN <<>>
  ELSE <<_rank_and_cap_entity_signals(signals_meta(ctx, e, row))>> \o RankedRow(ctx, row, e + 1)

\* ranked for the rows from the i-th on
RECURSIVE RankedFrom(_, _)
RankedFrom(ctx, i) ==
  IF i > Len(ctx.df.rows) THEN <<>>
  ELSE <<RankedRow(ctx, ctx.df.rows[i], 1)>> \o RankedFrom(ctx, i + 1)

\* ranked of every row and every entity, by row and by the place of the
\* entity in entities
Ranked(ctx) == RankedFrom(ctx, 1)

\* the lists cur_list + ranked handed to set() (line 620)
MergedLists(ctx, ranked) ==
  { ctx.df.rows[ie[1]][_entity_cols(ctx.entities[ie[2]]).signals].s \o ranked[ie[1]][ie[2]] :
      ie \in {x \in (DOMAIN ctx.df.rows) \X (DOMAIN ctx.entities) : ranked[x[1]][x[2]] # <<>>} }

\* every order of the elements of a finite set
RECURSIVE Orderings(_)
Orderings(S) ==
  IF S = {} THEN {<<>>}
  ELSE UNION {{<<x>> \o q : q \in Orderings(S \ {x})} : x \in S}

\* list(set(l)) for every list l of L.  A set of texts is iterated in the
\* order of the hashes of the texts, which Python draws anew for each
\* process: any order can come out, the same one for the same list within
\* one run.
RECURSIVE SetOrders(_)
SetOrders(L) ==
  IF L = {} THEN {<<>>}
  ELSE {((CHOOSE l \in L : TRUE) :> q) @@ f :
          q \in Orderings(Range(CHOOSE l \in L : TRUE)),
          f \in SetOrders(L \ {CHOOSE l \in L : TRUE})}

\* lines 617-620 for the entities of one row from the e-th on
RECURSIVE MergeRow(_, _, _, _, _)
MergeRow(row, entities, ranked_row, order, e) ==
  IF e > Len(entities) THEN row
  ELSE MergeRow(IF ranked_row[e] = <<>> THEN row
                ELSE (_entity_cols(entities[e]).signals :>
                        List(order[row[_entity_cols(entities[e]).signals].s \o ranked_row[e]]))
                     @@ row,
                entities, ranked_row, order, e + 1)

\* the row loop (lines 398-620): the tables it can leave
EntitySignals(ctx, ranked) ==
  { [ cols |-> ctx.df.cols,
      rows |-> [i \in DOMAIN ctx.df.rows |->
                  MergeRow(ctx.df.rows[i], ctx.entities, ranked[i], order, 1)] ] :
      order \in SetOrders(MergedLists(ctx, ranked)) }

\* compute_entity_signals with the windows W of line 358
EntitySignalsIn(ctx) == EntitySignals(ctx, Ranked(ctx))

EntitySignalsWith(df, W) ==
  EntitySignalsIn(EntityContext(EnsureEntityLists(df, _get_entities(df), 1), W,
                                _get_entities(df), _get_narratives(df)))

\* compute_entity_signals(df): the tables it can return
compute_entity_signals(df) == EntitySignalsWith(df, _window_splits(df, L_Date, None))

(***************************************************************************)
(* Pass 2: orchestrator and entry point                                    *)
(***************************************************************************)
\* new_col of _normalize_headers for one header (lines 82-91)
FixEnity(col) ==
  IF StartsWith(col, L_Enity_) THEN L_Entity_ \o From(col, Len(L_Enity_) + 1) ELSE col

FixModifiers(col) ==
  IF EndsWith(col, L__Modifiers) THEN SubSeq(col, 1, Len(col) - 1) ELSE col

FixQuality(col) ==
  Replace(Replace(col, L_Quality_score, L_Quality_Score), L_Quality_space_score, L_Quality_Score)

_normalize_headers(df) ==
  Table([j \in DOMAIN df.cols |-> FixQuality(FixModifiers(FixEnity(df.cols[j])))],
        [i \in DOMAIN df.rows |-> [j \in DOMAIN df.cols |-> df.rows[i][df.cols[j]]]])

\* list_cols of apply_all_signals (line 638)
list_cols(df) ==
  SelectSeq(df.cols, LAMBDA c : EndsWith(c, L_signals) \/ c = L_O_signals)

\* line 640 for one cell
JoinCell(v) ==
  IF v.k = "list" THEN Str(Join(L_CommaSpace, v.s))
  ELSE IF v.k = "str" THEN v
  ELSE Str(<<>>)

\* lines 639-640 over the columns cols
RECURSIVE JoinLists(_, _)
JoinLists(df, cols) ==
  IF cols = <<>> THEN df
  ELSE JoinLists(SetCol(df, Head(cols), LAMBDA row : JoinCell(row[Head(cols)])), Tail(cols))

\* lines 631-641 of apply_all_signals, the three computations working on
\* the windows W; df is the table after _normalize_headers and
\* _ensure_datetime
SignalsWith(df, W) ==
  { JoinLists(d, list_cols(d)) :
      d \in EntitySignalsWith(
              NarrativeSignalsLoop(TopicSignals(df, W, L_O_Sent, L_O_Sent), W,
                                   _get_narratives(df), 1),
              W) }

\* apply_all_signals(df, as_of): the tables it can return.  The three
\* computations are called with the table alone (lines 632-636), so each
\* takes its windows from _window_splits(df).
NormalizedInput(df) == _ensure_datetime(_normalize_headers(df), L_Date)

apply_all_signals(df, as_of) ==
  { JoinLists(d, list_cols(d)) :
      d \in compute_entity_signals(
              compute_narrative_signals(compute_topic_signals(NormalizedInput(df)))) }

\* the place of the last "/" of a path, 0 when there is none
LastSlash(path) == SetMax({i \in DOMAIN path : path[i] = "/"} \cup {0})

\* csv_path.rsplit("/", 1) and f"{dirname}/{prefix}{filename}" (lines
\* 647-651; lines 1019-1023 of vertical_analysis.py)
PrefixedPath(csv_path, prefix) ==
  IF LastSlash(csv_path) > 0
  THEN SubSeq(csv_path, 1, LastSlash(csv_path) - 1) \o L_Slash \o prefix
       \o From(csv_path, LastSlash(csv_path) + 1)
  ELSE L_Dot \o L_Slash \o prefix \o csv_path

\* out_path of process_signals
SignalsPath(csv_path) == PrefixedPath(csv_path, L_Signals_)

\* DataFrame.to_csv for one cell: a timestamp is written as a date when
\* every timestamp of its column is at midnight, with its time otherwise;
\* NaT is written as an empty cell
CsvCell(cell, midnight) ==
  IF cell.k = "ts" THEN DateText(IF midnight THEN F_Ymd ELSE F_YmdHMS, cell.n)
  ELSE IF cell.k = "nat" THEN NaN
  ELSE cell

AllMidnight(df, col) ==
  \A i \in DOMAIN df.rows : df.rows[i][col].k = "ts" => df.rows[i][col].n % TicksPerDay = 0

to_csv(df) ==
  IF HasCol(df, L_Date)
  THEN SetCol(df, L_Date, LAMBDA row : CsvCell(row[L_Date], AllMidnight(df, L_Date)))
  ELSE df

\* process_signals(csv_path, as_of) on a file holding df: the files it can
\* write
process_signals(csv_path, df, as_of) ==
  { [out_path |-> SignalsPath(csv_path), df |-> to_csv(d)] : d \in apply_all_signals(df, as_of) }

(***************************************************************************)
(* String literals of app.py                                               *)
(***************************************************************************)
\* "/tmp/"
L_TmpDir == <<"/", "t", "m", "p", "/">>

\* "tmp"
L_tmp == <<"t", "m", "p">>

\* "_input.csv"
L__input_csv == <<"_", "i", "n", "p", "u", "t", ".", "c", "s", "v">>

\* "Veritical_Analysis_"
L_Veritical_Analysis_ == <<"V", "e", "r", "i", "t", "i", "c", "a", "l", "_", "A", "n", "a", "l", "y", "s", "i", "s", "_">>

\* "Pass1_"
L_Pass1_ == <<"P", "a", "s", "s", "1", "_">>

\* "Pass2_"
L_Pass2_ == <<"P", "a", "s", "s", "2", "_">>

(***************************************************************************)
(* Paths and registries (app.py)                                           *)
(***************************************************************************)
\* output_path of vertical_analysis.process
output_path(csv_path) == PrefixedPath(csv_path, L_Veritical_Analysis_)

\* os.path.dirname, os.path.basename
dirname(path) ==
  IF LastSlash(path) <= 1 THEN SubSeq(path, 1, LastSlash(path))
  ELSE SubSeq(path, 1, LastSlash(path) - 1)

basename(path) == From(path, LastSlash(path) + 1)

\* tmp.name of tempfile.NamedTemporaryFile(suffix="_input.csv"), k standing
\* for the random part
TmpName(k) == L_TmpDir \o L_tmp \o FormatInt(k) \o L__input_csv

\* A dict is the list of its items <<key, value>>, in insertion order.
DictHas(d, key) == \E i \in DOMAIN d : d[i][1] = key

\* d[key], for a key of d
DictGet(d, key) == d[CHOOSE i \in DOMAIN d : d[i][1] = key][2]

\* d[key] = value
DictSet(d, key, value) ==
  IF DictHas(d, key)
  THEN [i \in DOMAIN d |-> IF d[i][1] = key THEN <<key, value>> ELSE d[i]]
  ELSE Append(d, <<key, value>>)

\* d.pop(key, None)
DictPop(d, key) == SelectSeq(d, LAMBDA item : item[1] # key)

\* the keys of d
DictKeys(d) == {d[i][1] : i \in DOMAIN d}

(***************************************************************************)
(* State                                                                   *)
(***************************************************************************)
VARIABLES
  globals,       \* the module globals of vertical_analysis
  csv,           \* the table of the file last given to process
  out,           \* what that call of process produced
  signals_call,  \* the last call of process_signals: its file and its as_of
  signals_file,  \* the file that call wrote
  UPLOADS,       \* app.UPLOADS: upload_token -> tmp_path
  DOWNLOADS,     \* app.DOWNLOADS: download_token -> (file_path, suggested_filename)
  PASS2_JOBS,    \* app.PASS2_JOBS: up_token -> {status, dl_token, error}
  files,         \* the files on disk: path -> what wrote the file
  threads,       \* the threads started by run_pass2, each with its locals
  requests,      \* the requests to /run/pass2, each with its locals
  uuids,         \* how many uuid4() and temporary names were drawn
  fn_args,       \* the arguments of a function that is called on its own
  fn_result      \* what that call returned

Pass1Vars == <<globals, csv, out>>
Pass2Vars == <<signals_call, signals_file>>
AppVars == <<UPLOADS, DOWNLOADS, PASS2_JOBS, files, threads, requests, uuids>>
FnVars == <<fn_args, fn_result>>

vars == <<globals, csv, out, signals_call, signals_file,
          UPLOADS, DOWNLOADS, PASS2_JOBS, files, threads, requests, uuids,
          fn_args, fn_result>>

\* no call of process yet
NoTable == [cols |-> <<>>, rows |-> <<>>]
NoResult == [error |-> FALSE, missing_cols |-> <<>>, available_cols |-> <<>>, df |-> NoTable]

\* no call of process_signals yet
NoCall == [csv_path |-> <<>>, df |-> NoTable, as_of |-> None]
NoFile == [out_path |-> <<>>, df |-> NoTable]

\* Pass 1, Pass 2 and the web surface before anything was asked of them
Pass1Idle == globals = InitialGlobals /\ csv = NoTable /\ out = NoResult

Pass2Idle == signals_call = NoCall /\ signals_file = NoFile

AppIdle ==
  /\ UPLOADS = <<>> /\ DOWNLOADS = <<>> /\ PASS2_JOBS = <<>>
  /\ files = <<>> /\ threads = <<>> /\ requests = <<>> /\ uuids = 0

\* no function called on its own
NoArgs == [fn |-> "none"]
NotCalled == [fn |-> "none"]

FnIdle == fn_args = NoArgs /\ fn_result = NotCalled

\* the part of process's result that the caller sees
Outcome(r) == [error |-> r.error, missing_cols |-> r.missing_cols,
               available_cols |-> r.available_cols, df |-> r.df]

\* the call of process returns r
Returns(df, r) ==
  /\ globals' = r.G
  /\ csv' = df
  /\ out' = Outcome(r)
  /\ UNCHANGED <<Pass2Vars, AppVars, FnVars>>

\* one call of vertical_analysis.process on the file holding df
RunProcess(df) == Returns(df, process(globals, df))

InitPass1 == Pass1Idle /\ Pass2Idle /\ AppIdle /\ FnIdle

(***************************************************************************)
(* Pass 1 over inputs of varied schema                                     *)
(***************************************************************************)
\* which value of a value line a header takes
Roles ==
  << <<L_Topic_Prominence, "tp">>,     <<L_Topic_Sentiment, "ts">>,
     <<L_O_Overall_Prominence, "op">>, <<L_O_Overall_Sentiment, "os">>,
     <<Entity_X_Prominence, "xp">>,    <<Enity_X_Prominence, "xp">>,
     <<Entity_X_Sentiment, "xs">>,     <<Entity_X_State, "xst">>,
     <<Entity_X__State, "xst">>,       <<Entity_Y_Prominence, "yp">>,
     <<Entity_Y_Sentiment, "ys">>,     <<Entity_Y_State, "yst">>,
     <<Narrative_A_Prominence, "np">>, <<Narrative_A_Sentiment, "ns">>,
     <<Narrative_A_State, "nst">>,     <<L_Topic_State, "tst">>,
     <<L_Topic_Sate, "tst">>,          <<L_Outlet_score, "o">>,
     <<L_Orchestra_Pub_Tier, "o2">>,   <<L_Pub_Tier, "pt">>,
     <<L_Body_Length_Words, "len">> >>

RoleOf(col) == (CHOOSE i \in DOMAIN Roles : Roles[i][1] = col)

\* the value line of a header list under the values v
Line(cols, v) == [j \in DOMAIN cols |-> v[Roles[RoleOf(cols[j])][2]]]

\* a row of values, by role
Values(tp, ts, op, os, xp, xs, xst, yp, ys, np, ns, o, o2) ==
  [ tp |-> Num(tp), ts |-> Num(ts), op |-> Num(op), os |-> Num(os),
    xp |-> Num(xp), xs |-> Num(xs), xst |-> xst, yp |-> Num(yp), ys |-> Num(ys),
    yst |-> NaN, np |-> Num(np), ns |-> Num(ns), nst |-> NaN, tst |-> NaN,
    o |-> Num(o), o2 |-> Num(o2), pt |-> Str(<<"A">>), len |-> Num(500000) ]

SchemaValues ==
  { Values(3000, -3000, 1000, 1000,     0,     0, NaN,           3000, 1000, 2000, -1000, 4000, 2000),
    Values(   0,     0, 3000, -1000, 3000,  2000, Str(S_Leader),    0,    0,    0,     0, 5000, 3000),
    Values(2000,  1000,    0,     0, 2000, -2000, Str(S_Offstage), 2000, -3000, 3000, 1000, 2000, 4000),
    Values(4000,  3000, 2000, -3000, 3000,  1000, NaN,              0,    0, 3000, -3000, 3000, 5000) }

\* the input files: one value line under each header list
SchemaInputs ==
  { Table(h, <<Line(h, v)>>) : h \in SchemaHeaders, v \in SchemaValues }

\* process is called on one of the input files
ProcessSchema == \E df \in SchemaInputs : RunProcess(df)

NextPass1 == ProcessSchema

SpecPass1 == InitPass1 /\ [][NextPass1]_vars

(***************************************************************************)
(* Claims about Pass 1 and the schema of its input                         *)
(***************************************************************************)
\* process was called, on the file csv
Called == csv # NoTable

\* what process does with df in a fresh interpreter
Fresh(df) == Outcome(process(InitialGlobals, df))

\* C1: the outcome of Pass 1 on an input (the output table or the error)
\* depends only on that input: it is what a first call on that input gives,
\* whatever inputs were processed earlier.
C1_OutcomeDependsOnInputOnly == Called => out = Fresh(csv)

\* the mapping of entity `name' in ENTITY_MAPPINGS, the entity being mapped
MappingOf(name) ==
  globals.ENTITY_MAPPINGS[CHOOSE i \in DOMAIN globals.ENTITY_MAPPINGS :
                            globals.ENTITY_MAPPINGS[i].name = name]

IsMapped(name) ==
  \E i \in DOMAIN globals.ENTITY_MAPPINGS : globals.ENTITY_MAPPINGS[i].name = name

\* the input has Entity_X__State and no Entity_X_State
DoubleUnderscoreOnly == HasCol(csv, Entity_X__State) /\ ~HasCol(csv, Entity_X_State)

StateSpellings(name) ==
  { L_Entity \o name \o L__State,  L_Enity \o name \o L__State,
    L_Entity \o name \o L___State, L_Enity \o name \o L___State,
    L_Entity \o name \o L__State \o <<" ">>, L_Enity \o name \o L__State \o <<" ">> }

Derived(input, output) ==
  [ cols |-> SelectSeq(output.cols, LAMBDA c : ~HasCol(input, c)),
    rows |-> [r \in DOMAIN output.rows |->
               [c \in {d \in Range(output.cols) : ~HasCol(input, d)} |->
                  output.rows[r][c]]] ]

\* the input with Entity_X_Prominence misspelled Enity_X_Prominence
Misspelled(df) == Rename(df, Entity_X_Prominence, Enity_X_Prominence)

\* C3: renaming the header Entity_X_Prominence to Enity_X_Prominence gives
\* the same Pass-1 outcome: the same derived columns with the same values.
C3_MisspelledProminenceSameOutput ==
  (Called /\ HasCol(csv, Entity_X_Prominence) /\ out = Fresh(csv)) =>
    /\ Fresh(Misspelled(csv)).error = out.error
    /\ Derived(Misspelled(csv), Fresh(Misspelled(csv)).df) = Derived(csv, out.df)

\* the file alone binds an entity or a narrative with both its prominence
\* and its sentiment
BindsSubject(df) ==
  \/ initialize_mappings_from_csv(InitialGlobals, df.cols).ENTITY_MAPPINGS # <<>>
  \/ initialize_mappings_from_csv(InitialGlobals, df.cols).NARRATIVE_MAPPINGS # <<>>

\* the file alone binds topic prominence, topic sentiment, the outlet tier
\* and at least one entity or narrative
AllBind(df) ==
  /\ TopicProminenceCol(InitialGlobals, df) # NONE
  /\ TopicSentimentCol(InitialGlobals, df) # NONE
  /\ OutletScoreCol(InitialGlobals, df) # NONE
  /\ BindsSubject(df)

\* C11: Pass 1 aborts with a schema error, listing the missing fields and
\* the available columns, if and only if a required binding is missing:
\* topic prominence, topic sentiment, outlet tier, or at least one entity or
\* narrative with both prominence and sentiment.  An input with no bindable
\* entity and no bindable narrative is rejected, and an input in which all
\* of these bind is processed without error.  (Stated of a call that
\* nothing left over from an earlier call has touched.)
C11_SchemaErrorIffBindingMissing ==
  (Called /\ out = Fresh(csv)) =>
    /\ out.error <=> ~AllBind(csv)
    /\ out.error => out.missing_cols # <<>>
    /\ ~BindsSubject(csv) => out.error

(***************************************************************************)
(* Pass 1 over rows of varied values                                       *)
(***************************************************************************)
\* a state value that is no label of the cascade
UnknownLabel == <<"F", "o", "o">>

\* prominence and sentiment of the topic, of narrative A and of entity X
TopicValues == { <<0, 0>>, <<3000, -3000>>, <<2000, 1000>> }
NarrativeValues == { <<0, 0>>, <<3000, 1000>>, <<2000, -2000>> }
EntityValues == { <<0, 0>>, <<0, -2000>>, <<3000, 2000>>, <<2000, -2000>>, <<2000, 1000>> }

\* the cells of Topic_State, Narrative_A_State and Entity_X_State
StateCells ==
  { <<NaN, NaN, NaN>>,
    <<Str(S_Healthy), Str(S_Risky), Str(S_Leader)>>,
    <<NaN, NaN, Str(UnknownLabel)>>,
    <<NaN, NaN, Str(<<" ">>)>>,
    <<NaN, NaN, Str(S_Offstage)>>,
    <<NaN, NaN, Str(L_off_stage)>> }

\* a value line with the given states
WithStates(v, st) == [v EXCEPT !.tst = st[1], !.nst = st[2], !.xst = st[3]]

CascadeValues ==
  { WithStates(Values(t[1], t[2], 0, 0, x[1], x[2], NaN, 2000, 1000, n[1], n[2], 3000, 3000), st) :
      t \in TopicValues, n \in NarrativeValues, x \in EntityValues, st \in StateCells }

\* value lines with entity X of prominence 2.0 and of a weak or a strong
\* positive sentiment, in outlets of tier 2 and 4, no state given
WeakSentimentValues ==
  { Values(3000, 1000, 0, 0, 2000, xs, NaN, 2000, 1000, 2000, 1000, o, o) :
      xs \in {300, 500, 3000}, o \in {2000, 4000} }

\* the input files: one value line under CascadeHeaders
CascadeInputs ==
  { Table(CascadeHeaders, <<Line(CascadeHeaders, v)>>) :
      v \in CascadeValues \cup WeakSentimentValues }

\* process is called on one of the input files
ProcessCascade == \E df \in CascadeInputs : RunProcess(df)

NextCascade == ProcessCascade

SpecCascade == InitPass1 /\ [][NextCascade]_vars

(***************************************************************************)
(* Claims about the states and modifiers of Pass 1                         *)
(***************************************************************************)
\* process returned a table for the file csv
Analysed == Called /\ ~out.error

\* the state columns of the subjects: topic, narratives, entities
TopicStateColumns == {L_Topic_State}
NarrativeStateColumns ==
  {globals.NARRATIVE_MAPPINGS[i].state : i \in DOMAIN globals.NARRATIVE_MAPPINGS}
EntityStateColumns ==
  {globals.ENTITY_MAPPINGS[i].state : i \in DOMAIN globals.ENTITY_MAPPINGS}

\* a state cell of the input that holds a value
NonEmptyState(cell) == ~isna(cell) /\ Strip(StrOf(cell)) # <<>>

\* C4: every pre-existing non-empty state value of the input (topic, each
\* narrative, each entity) is emitted unchanged; only empty or null cells
\* receive the state the cascade computes.
C4_PreexistingStatesUnchanged ==
  Analysed =>
    \A c \in TopicStateColumns \cup NarrativeStateColumns \cup EntityStateColumns :
      HasCol(csv, c) =>
        \A r \in DOMAIN csv.rows :
          NonEmptyState(csv.rows[r][c]) => out.df.rows[r][c] = csv.rows[r][c]

\* the enumerated labels
TopicStates ==
  {S_Absent, S_HighRisk, S_Risky, S_Healthy, S_AmbientRisk, S_Niche, S_Undetermined}
NarrativeStates ==
  {S_Absent, S_HighRisk, S_Risky, S_Healthy, S_AmbientRisk, S_Peripheral, S_Undetermined}
EntityStates ==
  {S_Absent, S_OffStage, S_UnderFire, S_Leader, S_SupportingPlayer, S_Undetermined}
AbsentModifiers == {M_NotRelevant, M_NarrativeDrift, M_FramingRisk}
OffStageModifiers ==
  {M_CompetitorLed, M_MissedOpportunity, M_GuiltByAssociation, M_InnocentBystander,
   M_ReporterLedRisk, M_Overlooked}
SupportingPlayerModifiers ==
  {M_StrategicSignal, M_LowHeatVisibility, M_CheckTheBox, M_BackgroundNoise}
UnderFireModifiers ==
  {M_NarrativeShaper, M_Takedown, M_BodyBlow, M_Stinger, M_LightJab,
   M_CollateralDamage, M_PeripheralHit}
LeaderModifiers ==
  {M_NarrativeSetter, M_Breakthrough, M_GreatStory, M_GoodStory, M_RoutinePositive}
Modifiers ==
  AbsentModifiers \cup OffStageModifiers \cup SupportingPlayerModifiers
    \cup UnderFireModifiers \cup LeaderModifiers \cup {<<>>}

\* the text of an emitted cell
Emitted(r, c) == out.df.rows[r][c]

\* every emitted topic and narrative state is an enumerated label
TopicAndNarrativeStatesEnumerated ==
  \A r \in DOMAIN out.df.rows :
    /\ \A c \in TopicStateColumns : Emitted(r, c) \in {Str(l) : l \in TopicStates}
    /\ \A c \in NarrativeStateColumns :
         Emitted(r, c) \in {Str(l) : l \in NarrativeStates}

\* every emitted entity modifier is a modifier label or empty
ModifiersEnumerated ==
  \A r \in DOMAIN out.df.rows :
    \A i \in DOMAIN globals.ENTITY_MAPPINGS :
      Emitted(r, globals.ENTITY_MAPPINGS[i].modifier) \in {Str(l) : l \in Modifiers}

\* C5 as stated: for every input, every emitted state is an enumerated label
\* and every entity modifier is a modifier label or empty.
C5_AllStatesEnumerated ==
  Analysed =>
    /\ TopicAndNarrativeStatesEnumerated
    /\ \A r \in DOMAIN out.df.rows :
         \A c \in EntityStateColumns : Emitted(r, c) \in {Str(l) : l \in EntityStates}
    /\ ModifiersEnumerated

\* a state text as Pass 1 writes a preserved one: stripped, Offstage spelled
\* Off-Stage
Written(s) ==
  IF Lower(Strip(s)) \in {L_offstage, L_off_stage} THEN S_OffStage ELSE Strip(s)

\* an entity state cell of the input that Pass 1 fills
ToFill(r, c) ==
  ~HasCol(csv, c) \/ isna(csv.rows[r][c]) \/ csv.rows[r][c] \in {Str(<<>>), Str(L_nan)}

\* C5 as amended: every topic and narrative state emitted, and every entity
\* state computed for a cell that is empty or null in the input, is an
\* enumerated label; a pre-existing non-empty entity state is emitted as
\* given (stripped, Offstage as Off-Stage), label or not; every entity
\* modifier is a modifier label or empty.
C5_ComputedStatesEnumerated ==
  Analysed =>
    /\ TopicAndNarrativeStatesEnumerated
    /\ \A r \in DOMAIN out.df.rows :
         \A c \in EntityStateColumns :
           IF ToFill(r, c)
           THEN Emitted(r, c) \in {Str(l) : l \in EntityStates}
           ELSE Emitted(r, c) = Str(Written(StrOf(csv.rows[r][c])))
    /\ ModifiersEnumerated

\* a run that emitted an entity state that is no label, next to a computed one
C5_Witness ==
  /\ Analysed
  /\ \E r \in DOMAIN out.df.rows :
       /\ HasCol(csv, Entity_X_State)
       /\ csv.rows[r][Entity_X_State] = Str(UnknownLabel)
       /\ Emitted(r, Entity_X_State) = Str(UnknownLabel)
       /\ Emitted(r, Entity_X_Modifier) = Str(<<>>)
       /\ Emitted(r, Entity_Y_State) = Str(S_SupportingPlayer)

\* prominence of the topic and of a mapped subject in row r of the input
TopicProm(r) == Val(csv.rows[r], globals.TOPIC_PROMINENCE_COL)
Prom(r, mapping) == Val(csv.rows[r], mapping.prominence)

\* topic and narratives of prominence 0 have a state of `states'
ZeroTopicAndNarratives(states) ==
  \A r \in DOMAIN out.df.rows :
    /\ TopicProm(r) = 0 => Emitted(r, L_Topic_State) \in states
    /\ \A i \in DOMAIN globals.NARRATIVE_MAPPINGS :
         Prom(r, globals.NARRATIVE_MAPPINGS[i]) = 0 =>
           Emitted(r, globals.NARRATIVE_MAPPINGS[i].state) \in states

\* the modifier goes with the state: that of an Absent entity is an Absent
\* modifier or empty, that of an Off-Stage entity an Off-Stage one or empty
ModifierOfState(r, mapping) ==
  /\ Emitted(r, mapping.state) = Str(S_Absent) =>
       Emitted(r, mapping.modifier) \in {Str(l) : l \in AbsentModifiers \cup {<<>>}}
  /\ Emitted(r, mapping.state) = Str(S_OffStage) =>
       Emitted(r, mapping.modifier) \in {Str(l) : l \in OffStageModifiers \cup {<<>>}}

\* C6 as stated: a subject of prominence 0 gets the computed state Absent or
\* Off-Stage, an entity with an Absent / Off-Stage modifier or none, also in
\* a row whose topic prominence is 0.
C6_ZeroProminenceAbsentOrOffStage ==
  Analysed =>
    /\ ZeroTopicAndNarratives({Str(S_Absent), Str(S_OffStage)})
    /\ \A r \in DOMAIN out.df.rows :
         \A i \in DOMAIN globals.ENTITY_MAPPINGS :
           LET mapping == globals.ENTITY_MAPPINGS[i]
           IN (Prom(r, mapping) = 0 /\ ToFill(r, mapping.state)) =>
                /\ Emitted(r, mapping.state) \in {Str(S_Absent), Str(S_OffStage)}
                /\ ModifierOfState(r, mapping)

\* C6 as amended: a topic or narrative of prominence 0 gets the state
\* Absent; an entity of prominence 0 whose
\* state is computed gets Absent or Off-Stage, with a modifier of that state
\* or none, in a row whose topic prominence is above 0, and Undetermined with
\* the empty modifier in a row whose topic prominence is 0.
C6_ZeroProminenceUnderTopic ==
  Analysed =>
    /\ ZeroTopicAndNarratives({Str(S_Absent)})
    /\ \A r \in DOMAIN out.df.rows :
         \A i \in DOMAIN globals.ENTITY_MAPPINGS :
           LET mapping == globals.ENTITY_MAPPINGS[i]
           IN (Prom(r, mapping) = 0 /\ ToFill(r, mapping.state)) =>
                /\ TopicProm(r) > 0 =>
                     /\ Emitted(r, mapping.state) \in {Str(S_Absent), Str(S_OffStage)}
                     /\ ModifierOfState(r, mapping)
                /\ TopicProm(r) = 0 =>
                     /\ Emitted(r, mapping.state) = Str(S_Undetermined)
                     /\ Emitted(r, mapping.modifier) = Str(<<>>)

\* a run on a row with topic and entity X of prominence 0, X's state empty
C6_Witness ==
  /\ Analysed
  /\ \E r \in DOMAIN out.df.rows :
       /\ TopicProm(r) = 0
       /\ IsMapped(X) /\ Prom(r, MappingOf(X)) = 0 /\ ToFill(r, MappingOf(X).state)
       /\ Emitted(r, MappingOf(X).state) = Str(S_Undetermined)
       /\ Emitted(r, MappingOf(X).modifier) = Str(<<>>)

\* the state-gated dispatch on the state emitted in row r for the entity of
\* mapping, with the features of that row
ModifierOfFinalState(r, mapping) ==
  Str(entity_modifier_row(globals, mapping, out.df.rows[r]))

\* C13: for every row and entity, the modifier Pass 1 emits is the result
\* of the state-gated modifier dispatch applied to the state emitted in that
\* row's final state column (pre-existing states preserved, missing ones
\* computed, spelling variants such as Offstage and off stage normalized to
\* Off-Stage) together with the row's current features.
C13_ModifierFromFinalState ==
  Analysed =>
    \A r \in DOMAIN out.df.rows :
      \A i \in DOMAIN globals.ENTITY_MAPPINGS :
        Emitted(r, globals.ENTITY_MAPPINGS[i].modifier)
          = ModifierOfFinalState(r, globals.ENTITY_MAPPINGS[i])

\* the *_Sentiment_Normalized column of an entity
EntitySentimentNormalized(mapping) == L_Entity \o mapping.name \o L__Sentiment_Normalized

\* C14: for every row and every subject (topic, narrative, entity) whose
\* prominence is 0, the normalized sentiment Pass 1 emits for that subject
\* (its *_Sentiment_Normalized column) is 0, whatever the raw sentiment is.
C14_AbsentSubjectHasZeroSentiment ==
  Analysed =>
    \A r \in DOMAIN out.df.rows :
      /\ TopicProm(r) = 0 => Emitted(r, L_Topic_Sentiment_Normalized) = Num(0)
      /\ \A i \in DOMAIN globals.NARRATIVE_MAPPINGS :
           Prom(r, globals.NARRATIVE_MAPPINGS[i]) = 0 =>
             Emitted(r, globals.NARRATIVE_MAPPINGS[i].key \o L__Sentiment_Normalized) = Num(0)
      /\ \A i \in DOMAIN globals.ENTITY_MAPPINGS :
           Prom(r, globals.ENTITY_MAPPINGS[i]) = 0 =>
             Emitted(r, EntitySentimentNormalized(globals.ENTITY_MAPPINGS[i])) = Num(0)

\* the canonical entity states, each with a modifier table
CanonicalEntityStates == {S_Absent, S_OffStage, S_SupportingPlayer, S_UnderFire, S_Leader}

\* the state of the mapped entity in row r was computed by Pass 1: the input
\* has no value for it
StateComputed(r, mapping) ==
  HasCol(csv, mapping.state) => mask_missing_state(csv.rows[r][mapping.state])

\* row r has an integer outlet tier in 1..5 and the sentiment of the mapped
\* entity lies in [-4, 4]
WithinScales(r, mapping) ==
  /\ Val(csv.rows[r], globals.OUTLET_SCORE_COL) \in {1000 * k : k \in 1..5}
  /\ Val(csv.rows[r], mapping.sentiment) >= -4000
  /\ Val(csv.rows[r], mapping.sentiment) <= 4000

\* C29: every canonical entity state has complete modifier coverage: for
\* every row in which Pass 1 computes the entity state as Absent, Off-Stage,
\* Supporting Player, Under Fire or Leader, with an integer outlet tier in
\* 1..5 and a sentiment in [-4, 4], the emitted modifier is non-empty.
C29_CanonicalStatesHaveModifier ==
  Analysed =>
    \A r \in DOMAIN out.df.rows :
      \A i \in DOMAIN globals.ENTITY_MAPPINGS :
        ( /\ StateComputed(r, globals.ENTITY_MAPPINGS[i])
          /\ WithinScales(r, globals.ENTITY_MAPPINGS[i])
          /\ Emitted(r, globals.ENTITY_MAPPINGS[i].state)
               \in {Str(l) : l \in CanonicalEntityStates} ) =>
          Emitted(r, globals.ENTITY_MAPPINGS[i].modifier) # Str(<<>>)

(***************************************************************************)
(* Pass 2 over tables of dated rows                                        *)
(***************************************************************************)
\* the day of the latest row of the input files
RefDay == 100

\* the instant of a day and a tick of that day
Instant(day, tick) == day * TicksPerDay + tick

\* the header line of the input files of Pass 2: a topic, narrative 1,
\* entities 1 and 2; the modifier of entity 1 under its plural header
SignalHeaders ==
  << L_Date, L_Publication, L_Orchestra_Pub_Tier, L_O_Sent,
     _narr_cols(1).prom, _narr_cols(1).sent,
     _entity_cols(1).prom, _entity_cols(1).sent, _entity_cols(1).modifier \o <<"s">>,
     _entity_cols(2).prom, _entity_cols(2).sent >>

\* a value line: publication, tier, topic, narrative, entity 1 with its
\* modifier, entity 2
SignalLine(date, pub, tier, o_sent, np, ns, p1, s1, mod1, p2, s2) ==
  << date, Str(<<pub>>), Num(tier), Num(o_sent), Num(np), Num(ns),
     Num(p1), Num(s1), mod1, Num(p2), Num(s2) >>

\* the value lines of an input file, the latest row first: an entity seen
\* alone with no narrative, or an entity with a breakthrough on a narrative
SignalLines(d1, d2) ==
  { << SignalLine(d1, "A", 4000, 3500, 0, 0, 2000, 1000, NaN, 0, 0),
       SignalLine(d2, "B", 2000, 1000, 0, 0, 2000, 1000, NaN, 0, 0) >>,
    << SignalLine(d1, "A", 2000, 2000, 3000, 1000, 4000, 2000, Str(M_Breakthrough), 0, 0),
       SignalLine(d2, "B", 1000, 1000, 3000, 1000, 0, 0, NaN, 0, 0) >> }

\* the ticks a date text of a format can name
TicksOf(fmt) == IF fmt \in {F_YmdHMS, F_mdYHMS} THEN 0..(TicksPerDay - 1) ELSE {0}

\* the days of the earlier row: the first and last days of the windows
EarlierDays == {RefDay - 29, RefDay - 30, RefDay - 59, RefDay - 60}

\* the dates of the two rows, written in the format fmt
DatePairsOf(fmt) ==
  { <<DateText(fmt, Instant(RefDay, t[1])), DateText(fmt, Instant(day, t[2]))>> :
      day \in EarlierDays, t \in TicksOf(fmt) \X TicksOf(fmt) }

DatePairs == UNION {DatePairsOf(fmt) : fmt \in {F_Ymd, F_mdY, F_YmdHMS}}

\* the raw input files
RawInputs ==
  { Table(SignalHeaders, lines) : lines \in UNION {SignalLines(d[1], d[2]) : d \in DatePairs} }

\* pd.read_csv of a file written by to_csv: an empty text is read as NaN
read_csv(df) ==
  [ cols |-> df.cols,
    rows |-> [i \in DOMAIN df.rows |->
                [c \in Range(df.cols) |->
                   IF df.rows[i][c] = Str(<<>>) THEN NaN ELSE df.rows[i][c]]] ]

\* the files written by an earlier run of Pass 2 on the raw files of the
\* entity with a breakthrough, given back as input
EarlierOutputs ==
  { read_csv(file.df) :
      file \in UNION { process_signals(L_InputCsv, df, None) :
                        df \in { t \in RawInputs :
                                  /\ t.rows[1][L_Date] = DateText(F_Ymd, Instant(RefDay, 0))
                                  /\ t.rows[2][L_Date] = DateText(F_Ymd, Instant(RefDay - 60, 0))
                                  /\ t.rows[1][_entity_cols(1).modifier \o <<"s">>] # NaN } } }

\* the input files
SignalInputs == RawInputs \cup EarlierOutputs

\* the as_of of a call: none, the day of the latest row, an earlier day
AsOfs == {None, DateText(F_Ymd, Instant(RefDay, 0)), DateText(F_Ymd, Instant(RefDay - 30, 0))}

\* process_signals(csv_path, as_of) has written file
SignalsReturn(csv_path, df, as_of, file) ==
  /\ signals_call' = [csv_path |-> csv_path, df |-> df, as_of |-> as_of]
  /\ signals_file' = file
  /\ UNCHANGED <<Pass1Vars, AppVars, FnVars>>

\* one call of process_signals on one of the input files.  The function
\* keeps nothing from one call to the next: a behaviour holds one call.
ProcessSignals ==
  /\ signals_call = NoCall
  /\ \E df \in SignalInputs, as_of \in AsOfs :
       \E file \in process_signals(L_InputCsv, df, as_of) :
         SignalsReturn(L_InputCsv, df, as_of, file)

InitSignals == Pass1Idle /\ Pass2Idle /\ AppIdle /\ FnIdle

NextSignals == ProcessSignals

SpecSignals == InitSignals /\ [][NextSignals]_vars

(***************************************************************************)
(* Claims about the windows and signals of Pass 2                          *)
(***************************************************************************)
\* process_signals was called
SignalsCalled == signals_call # NoCall

\* how many times sep occurs in text
RECURSIVE Occurrences(_, _)
Occurrences(text, sep) ==
  IF Find(text, sep) = 0 THEN 0
  ELSE 1 + Occurrences(From(text, Find(text, sep) + Len(sep)), sep)

\* how many signals a written signals cell names
SignalCount(cell) ==
  IF cell.k # "str" \/ cell.s = <<>> THEN 0
  ELSE 1 + Occurrences(cell.s, L_CommaSpace)

\* the entities of a written file have at most cap signals in every row
EntitySignalsCapped(df, cap) ==
  \A i \in DOMAIN df.rows : \A e \in Range(_get_entities(df)) :
    SignalCount(df.rows[i][_entity_cols(e).signals]) <= cap

\* C7: after Pass 2 the signals cell of every entity in every row holds at
\* most 3 signals, for every input table, also one that already carries a
\* <k>_C_signals column such as the output of an earlier run of Pass 2.
C7_AtMostThreeEntitySignals ==
  SignalsCalled => EntitySignalsCapped(signals_file.df, ENTITY_SIGNAL_CAP)

\* the files process_signals can write when its three computations take
\* their windows at as_of (at the latest date when as_of is None)
FilesAt(df, as_of) ==
  { to_csv(d) : d \in SignalsWith(df, WindowsOf(df, L_Date, as_of)) }

\* C8: when an as_of date is passed to Pass 2, the current and the prior
\* window of the topic, narrative and entity computations are taken
\* relative to as_of; the latest date of the input is used only when no
\* as_of is given.  The file written is then one that windows at as_of give.
C8_WindowsRelativeToAsOf ==
  SignalsCalled => signals_file.df \in FilesAt(NormalizedInput(signals_call.df), signals_call.as_of)

\* the day of a timestamp
DayOf(ts) == ts.n \div TicksPerDay

\* row is a row of the table t
InRows(t, row) == \E k \in DOMAIN t.rows : t.rows[k] = row

\* the windows W put the dated row in the current window iff its day is
\* one of the 30 days ending at max_date, in the prior window iff its day
\* is one of the 30 days before those, and never in both
SplitByDay(W, max_date, row) ==
  /\ InRows(W.df_current, row)
       <=> /\ DayOf(max_date) - (WINDOW_DAYS - 1) <= DayOf(row[L_Date])
           /\ DayOf(row[L_Date]) <= DayOf(max_date)
  /\ InRows(W.df_prior, row)
       <=> /\ DayOf(max_date) - (2 * WINDOW_DAYS - 1) <= DayOf(row[L_Date])
           /\ DayOf(row[L_Date]) <= DayOf(max_date) - WINDOW_DAYS
  /\ ~(InRows(W.df_current, row) /\ InRows(W.df_prior, row))
  /\ (/\ DayOf(max_date) - (2 * WINDOW_DAYS - 1) <= DayOf(row[L_Date])
      /\ DayOf(row[L_Date]) <= DayOf(max_date))
       => (InRows(W.df_current, row) \/ InRows(W.df_prior, row))

\* every dated row of df is split by day under the windows W
AllSplitByDay(df, W) ==
  \A i \in DOMAIN df.rows :
    (df.rows[i][L_Date].k = "ts" /\ W.cur_win[2].k = "ts")
      => SplitByDay(W, W.cur_win[2], df.rows[i])

\* C9: with max_date the reference date, _window_splits puts a row in the
\* current window iff max_date-29 <= date <= max_date and in the prior
\* window iff max_date-59 <= date <= max_date-30, by day and both bounds
\* included; no row is in both windows, and every row dated within the 60
\* days ending at max_date is in exactly one.
C9_WindowsSplitTheSixtyDays ==
  SignalsCalled => AllSplitByDay(NormalizedInput(signals_call.df),
                          _window_splits(NormalizedInput(signals_call.df), L_Date, signals_call.as_of))

\* every column of the table input is in the table output under the same
\* header, with the same value in every row
ColumnsKept(input, output) ==
  /\ DOMAIN output.rows = DOMAIN input.rows
  /\ \A c \in Range(input.cols) :
       /\ HasCol(output, c)
       /\ \A i \in DOMAIN input.rows : output.rows[i][c] = input.rows[i][c]

\* the columns of output that input has not are signals columns
OnlySignalsAdded(input, output) ==
  \A c \in Range(output.cols) : HasCol(input, c) \/ EndsWith(c, L_signals)

\* C12: Pass 2 leaves the source table unchanged: every column of the input
\* appears in the output under the same header with the same cell values,
\* and the only difference between input and output is the added signals
\* columns.
C12_SourceTableUnchanged ==
  SignalsCalled =>
    /\ ColumnsKept(signals_call.df, signals_file.df)
    /\ OnlySignalsAdded(signals_call.df, signals_file.df)

(***************************************************************************)
(* The web surface (app.py): upload, Pass 1, Pass 2 with its worker        *)
(* thread, download, reset.                                                *)
(*                                                                         *)
(* A file is known by its path and by what wrote it; the tables in the     *)
(* files are the matter of the two passes above.  Tokens are numbered in   *)
(* the order uuid4() gave them.  A request that only answers with a flash  *)
(* message (an unknown token, a pass that failed) changes nothing and is   *)
(* left out.                                                               *)
(***************************************************************************)
\* how many uuid4() values and temporary names a behaviour may draw
MaxUuids == 5

\* how many worker threads a behaviour may start
MaxThreads == 2

\* how many requests to /run/pass2 a behaviour may make
MaxRequests == 2

\* a path that is None
NoPath == <<>>

\* os.path.exists(path)
Exists(path) == DictHas(files, path)

\* the worker of run_pass2, before its first statement
NewThread(up_token, tmp_path) ==
  [ up_token |-> up_token, tmp_path |-> tmp_path, pc |-> "start",
    out_path1 |-> NoPath, source_path |-> NoPath, out_path2 |-> NoPath, token2 |-> 0 ]

\* upload() (lines 226-254): the file is saved under a temporary name and
\* registered under a new token
upload ==
  /\ uuids + 2 <= MaxUuids
  /\ files' = DictSet(files, TmpName(uuids + 1), [by |-> "upload", from |-> NoPath])
  /\ UPLOADS' = DictSet(UPLOADS, uuids + 2, TmpName(uuids + 1))
  /\ uuids' = uuids + 2
  /\ UNCHANGED <<DOWNLOADS, PASS2_JOBS, threads, requests, Pass1Vars, Pass2Vars, FnVars>>

\* run_pass1() (lines 257-287) when Pass 1 writes its output
run_pass1(up_token) ==
  /\ DictHas(UPLOADS, up_token)
  /\ Exists(DictGet(UPLOADS, up_token))
  /\ uuids + 1 <= MaxUuids
  /\ files' = DictSet(files, output_path(DictGet(UPLOADS, up_token)),
                      [by |-> "pass1", from |-> DictGet(UPLOADS, up_token)])
  /\ DOWNLOADS' = DictSet(DOWNLOADS, uuids + 1,
                          << output_path(DictGet(UPLOADS, up_token)),
                             L_Pass1_ \o basename(output_path(DictGet(UPLOADS, up_token))) >>)
  /\ uuids' = uuids + 1
  /\ UNCHANGED <<UPLOADS, PASS2_JOBS, threads, requests, Pass1Vars, Pass2Vars, FnVars>>

\* `not job or job.get("status") in {"error", "done"}' (line 299)
MayStart(up_token) ==
  IF DictHas(PASS2_JOBS, up_token)
  THEN DictGet(PASS2_JOBS, up_token).status \in {"error", "done"}
  ELSE TRUE

\* a request to /run/pass2 after lines 292-296, before it reads the job
NewRequest(up_token, tmp_path) == [up_token |-> up_token, tmp_path |-> tmp_path, pc |-> "check"]

\* run_pass2() (lines 290-296): a request for a registered upload arrives.
\* app.run (line 410) serves each request in a thread of its own, and the
\* handler holds no lock, so the statements of two requests interleave.
run_pass2(up_token) ==
  /\ DictHas(UPLOADS, up_token)
  /\ Len(requests) < MaxRequests
  /\ requests' = Append(requests, NewRequest(up_token, DictGet(UPLOADS, up_token)))
  /\ UNCHANGED <<UPLOADS, DOWNLOADS, PASS2_JOBS, files, threads, uuids, Pass1Vars, Pass2Vars, FnVars>>

\* lines 298-299: the request reads the job of its token and decides
\* whether to start a worker
run_pass2_check(r) ==
  /\ requests[r].pc = "check"
  /\ requests' = [requests EXCEPT
       ![r].pc = IF MayStart(requests[r].up_token) THEN "start" ELSE "returned"]
  /\ UNCHANGED <<UPLOADS, DOWNLOADS, PASS2_JOBS, files, threads, uuids, Pass1Vars, Pass2Vars, FnVars>>

\* lines 300-324: the request writes the job as queued and starts the worker
run_pass2_start(r) ==
  /\ requests[r].pc = "start"
  /\ Len(threads) < MaxThreads
  /\ PASS2_JOBS' = DictSet(PASS2_JOBS, requests[r].up_token,
                           [status |-> "queued", dl_token |-> 0, error |-> FALSE])
  /\ threads' = Append(threads, NewThread(requests[r].up_token, requests[r].tmp_path))
  /\ requests' = [requests EXCEPT ![r].pc = "returned"]
  /\ UNCHANGED <<UPLOADS, DOWNLOADS, files, uuids, Pass1Vars, Pass2Vars, FnVars>>

\* PASS2_JOBS[up_token][field] = value by thread i, which goes on at pc;
\* without the job the statement raises KeyError and the thread goes to
\* lost
SetJob(i, field, value, pc, lost) ==
  IF DictHas(PASS2_JOBS, threads[i].up_token)
  THEN /\ PASS2_JOBS' = DictSet(PASS2_JOBS, threads[i].up_token,
                                [DictGet(PASS2_JOBS, threads[i].up_token) EXCEPT ![field] = value])
       /\ threads' = [threads EXCEPT ![i].pc = pc]
  ELSE /\ PASS2_JOBS' = PASS2_JOBS
       /\ threads' = [threads EXCEPT ![i].pc = lost]

\* line 303
_run_start(i) ==
  /\ threads[i].pc = "start"
  /\ SetJob(i, "status", "running", "scan", "died")
  /\ UNCHANGED <<UPLOADS, DOWNLOADS, files, uuids, requests, Pass1Vars, Pass2Vars, FnVars>>

\* the test of line 308 on one item of DOWNLOADS
IsPass1Output(tmp_path, path) ==
  StartsWith(path, dirname(tmp_path)) /\ StartsWith(basename(path), L_Pass1_)

\* out_path1 after the loop of lines 306-310: the path of the first item
\* that passes the test, None without one
FirstPass1Output(tmp_path, items) ==
  IF \E k \in DOMAIN items : IsPass1Output(tmp_path, items[k][2][1])
  THEN items[SetMin({k \in DOMAIN items : IsPass1Output(tmp_path, items[k][2][1])})][2][1]
  ELSE NoPath

\* source_path of line 311
SourcePath(out_path1, tmp_path) ==
  IF out_path1 # NoPath /\ Exists(out_path1) THEN out_path1 ELSE tmp_path

\* lines 306-311: the worker chooses its source
_run_scan(i) ==
  /\ threads[i].pc = "scan"
  /\ threads' = [threads EXCEPT
       ![i].out_path1 = FirstPass1Output(threads[i].tmp_path, DOWNLOADS),
       ![i].source_path = SourcePath(FirstPass1Output(threads[i].tmp_path, DOWNLOADS),
                                     threads[i].tmp_path),
       ![i].pc = "process"]
  /\ UNCHANGED <<UPLOADS, DOWNLOADS, PASS2_JOBS, files, uuids, requests, Pass1Vars, Pass2Vars, FnVars>>

\* lines 312-314: process_signals(source_path) writes its file, or raises
\* (always so when the source is gone)
_run_process(i) ==
  /\ threads[i].pc = "process"
  /\ \/ /\ Exists(threads[i].source_path)
        /\ files' = DictSet(files, SignalsPath(threads[i].source_path),
                            [by |-> "pass2", from |-> threads[i].source_path])
        /\ threads' = [threads EXCEPT ![i].out_path2 = SignalsPath(threads[i].source_path),
                                      ![i].pc = "register"]
     \/ /\ files' = files
        /\ threads' = [threads EXCEPT ![i].pc = "except"]
  /\ UNCHANGED <<UPLOADS, DOWNLOADS, PASS2_JOBS, uuids, requests, Pass1Vars, Pass2Vars, FnVars>>

\* lines 315-316
_run_register(i) ==
  /\ threads[i].pc = "register"
  /\ uuids + 1 <= MaxUuids
  /\ DOWNLOADS' = DictSet(DOWNLOADS, uuids + 1,
                          <<threads[i].out_path2, L_Pass2_ \o basename(threads[i].out_path2)>>)
  /\ uuids' = uuids + 1
  /\ threads' = [threads EXCEPT ![i].token2 = uuids + 1, ![i].pc = "set_token"]
  /\ UNCHANGED <<UPLOADS, PASS2_JOBS, files, requests, Pass1Vars, Pass2Vars, FnVars>>

\* line 317
_run_set_token(i) ==
  /\ threads[i].pc = "set_token"
  /\ SetJob(i, "dl_token", threads[i].token2, "set_done", "except")
  /\ UNCHANGED <<UPLOADS, DOWNLOADS, files, uuids, requests, Pass1Vars, Pass2Vars, FnVars>>

\* line 318
_run_set_done(i) ==
  /\ threads[i].pc = "set_done"
  /\ SetJob(i, "status", "done", "finished", "except")
  /\ UNCHANGED <<UPLOADS, DOWNLOADS, files, uuids, requests, Pass1Vars, Pass2Vars, FnVars>>

\* lines 319-321: the handler of the exception
_run_except(i) ==
  /\ threads[i].pc = "except"
  /\ IF DictHas(PASS2_JOBS, threads[i].up_token)
     THEN /\ PASS2_JOBS' = DictSet(PASS2_JOBS, threads[i].up_token,
                                   [DictGet(PASS2_JOBS, threads[i].up_token)
                                      EXCEPT !.status = "error", !.error = TRUE])
          /\ threads' = [threads EXCEPT ![i].pc = "finished"]
     ELSE /\ PASS2_JOBS' = PASS2_JOBS
          /\ threads' = [threads EXCEPT ![i].pc = "died"]
  /\ UNCHANGED <<UPLOADS, DOWNLOADS, files, uuids, requests, Pass1Vars, Pass2Vars, FnVars>>

\* download_token(token) (lines 354-364) for a token that is registered
download_token(token) ==
  /\ DictHas(DOWNLOADS, token)
  /\ DOWNLOADS' = DictPop(DOWNLOADS, token)
  /\ UNCHANGED <<UPLOADS, PASS2_JOBS, files, threads, uuids, requests, Pass1Vars, Pass2Vars, FnVars>>

\* to_remove of reset (lines 380-383): the items whose path starts with the
\* directory of the upload
ToRemove(tmp_path) ==
  {DOWNLOADS[k][1] : k \in {j \in DOMAIN DOWNLOADS :
                              tmp_path # NoPath /\ StartsWith(DOWNLOADS[j][2][1], dirname(tmp_path))}}

\* the files reset unlinks (lines 373-387)
Unlinked(tmp_path) ==
  {tmp_path} \cup {DOWNLOADS[k][2][1] : k \in {j \in DOMAIN DOWNLOADS : DOWNLOADS[j][1] \in ToRemove(tmp_path)}}

\* reset() (lines 367-396) for the token of an upload or of a job
ResetOf(up_token, tmp_path) ==
  /\ UPLOADS' = DictPop(UPLOADS, up_token)
  /\ files' = SelectSeq(files, LAMBDA item : item[1] \notin Unlinked(tmp_path))
  /\ DOWNLOADS' = SelectSeq(DOWNLOADS, LAMBDA item : item[1] \notin ToRemove(tmp_path))
  /\ PASS2_JOBS' = DictPop(PASS2_JOBS, up_token)
  /\ UNCHANGED <<threads, uuids, requests, Pass1Vars, Pass2Vars, FnVars>>

reset(up_token) ==
  /\ up_token \in DictKeys(UPLOADS) \cup DictKeys(PASS2_JOBS)
  /\ ResetOf(up_token, IF DictHas(UPLOADS, up_token) THEN DictGet(UPLOADS, up_token) ELSE NoPath)

\* the tokens a request can carry
Tokens == 1..MaxUuids

InitApp == Pass1Idle /\ Pass2Idle /\ AppIdle /\ FnIdle

NextApp ==
  \/ upload
  \/ \E up_token \in Tokens : run_pass1(up_token)
  \/ \E up_token \in Tokens : run_pass2(up_token)
  \/ \E r \in DOMAIN requests : run_pass2_check(r)
  \/ \E r \in DOMAIN requests : run_pass2_start(r)
  \/ \E i \in DOMAIN threads : _run_start(i)
  \/ \E i \in DOMAIN threads : _run_scan(i)
  \/ \E i \in DOMAIN threads : _run_process(i)
  \/ \E i \in DOMAIN threads : _run_register(i)
  \/ \E i \in DOMAIN threads : _run_set_token(i)
  \/ \E i \in DOMAIN threads : _run_set_done(i)
  \/ \E i \in DOMAIN threads : _run_except(i)
  \/ \E token \in Tokens : download_token(token)
  \/ \E up_token \in Tokens : reset(up_token)

SpecApp == InitApp /\ [][NextApp]_vars

(***************************************************************************)
(* Claims about the web surface                                            *)
(***************************************************************************)
\* Pass 1 has completed for the upload at tmp_path and its output is there:
\* the output file exists and is registered for download
Pass1OutputAvailable(tmp_path) ==
  /\ Exists(output_path(tmp_path))
  /\ \E k \in DOMAIN DOWNLOADS : DOWNLOADS[k][2][1] = output_path(tmp_path)

\* thread i chooses its source in this step
ChoosesSource(i) == threads[i].pc = "scan" /\ threads'[i].pc = "process"

\* C10: when Pass 2 is started for an upload whose Pass 1 has completed and
\* whose Pass-1 output file still exists, the worker reads the Pass-1
\* output file as its source; it reads the raw uploaded file only when no
\* Pass-1 output is available.
C10_WorkerReadsPass1Output ==
  [][\A i \in DOMAIN threads :
       ChoosesSource(i) =>
         /\ Pass1OutputAvailable(threads[i].tmp_path)
              => threads'[i].source_path = output_path(threads[i].tmp_path)
         /\ threads'[i].source_path = threads[i].tmp_path
              => ~Exists(output_path(threads[i].tmp_path))]_vars

\* thread i ends in this step: its last statement returns or raises
WorkerEnds(i) ==
  /\ threads[i].pc \notin {"finished", "died"}
  /\ threads'[i].pc \in {"finished", "died"}

\* the upload of thread i was reset after the worker was started: the worker
\* is started only for a registered upload (line 293), a token is never
\* registered twice, and only reset takes an upload out of UPLOADS
ResetSinceStarted(i) == ~DictHas(UPLOADS, threads[i].up_token)

\* C20: if the session of an upload is reset while that upload's Pass-2 job
\* is queued or running, then once the worker has finished no download token
\* for that job's output is registered, no job record for that upload
\* exists, and the worker ends without an unhandled error.
C20_CancelledPassDiscardsOutput ==
  [][\A i \in DOMAIN threads :
       (WorkerEnds(i) /\ ResetSinceStarted(i)) =>
         /\ threads'[i].pc = "finished"
         /\ ~DictHas(PASS2_JOBS', threads[i].up_token)
         /\ \A k \in DOMAIN DOWNLOADS' :
              /\ DOWNLOADS'[k][1] # threads'[i].token2
              /\ threads'[i].out_path2 # NoPath
                   => DOWNLOADS'[k][2][1] # threads'[i].out_path2]_vars

\* the workers of upload token u that are queued or running: started and
\* not yet ended
LiveWorkers(u) ==
  {i \in DOMAIN threads : threads[i].up_token = u /\ threads[i].pc \notin {"finished", "died"}}

\* at most one worker per upload token is queued or running
AtMostOneWorker == \A u \in Tokens : Cardinality(LiveWorkers(u)) <= 1

\* the job of u is queued or running
JobBusy(u) ==
  DictHas(PASS2_JOBS, u) /\ DictGet(PASS2_JOBS, u).status \in {"queued", "running"}

\* a worker for u is started in this step
StartsWorker(u) ==
  Len(threads') = Len(threads) + 1 /\ threads'[Len(threads')].up_token = u

\* the moves of the status of a job
StatusMoves == {<<"queued", "running">>, <<"running", "done">>, <<"running", "error">>}

\* the status of the job of u in this step: a new record is queued and
\* comes with a new worker, after done or error as well; a record that
\* stays moves by StatusMoves or keeps its status
StatusStep(u) ==
  /\ (~DictHas(PASS2_JOBS, u) /\ DictHas(PASS2_JOBS', u)) =>
        (StartsWorker(u) /\ DictGet(PASS2_JOBS', u).status = "queued")
  /\ (DictHas(PASS2_JOBS, u) /\ DictHas(PASS2_JOBS', u)) =>
        \/ DictGet(PASS2_JOBS', u).status = DictGet(PASS2_JOBS, u).status
        \/ <<DictGet(PASS2_JOBS, u).status, DictGet(PASS2_JOBS', u).status>> \in StatusMoves
        \/ /\ DictGet(PASS2_JOBS, u).status \in {"done", "error"}
           /\ DictGet(PASS2_JOBS', u).status = "queued"
           /\ StartsWorker(u)

\* a job has a download token only when its status is done
TokenOnlyWhenDone ==
  \A k \in DOMAIN PASS2_JOBS :
    PASS2_JOBS[k][2].dl_token # 0 => PASS2_JOBS[k][2].status = "done"

\* C30: under any interleaving of /run/pass2 requests, at most one Pass-2
\* worker per upload token is queued or running at a time: a request handled
\* while that token's job is queued or running starts no new worker, a
\* job's status only moves queued -> running -> done or error, and a
\* download token is present only once the status is done.
C30_OneWorkerPerUpload ==
  /\ [](AtMostOneWorker /\ TokenOnlyWhenDone)
  /\ [][\A u \in Tokens : (StartsWorker(u) => ~JobBusy(u)) /\ StatusStep(u)]_vars

\* the parts of C30, each on its own
C30_AtMostOneWorker == AtMostOneWorker
C30_TokenOnlyWhenDone == TokenOnlyWhenDone
C30_NoStartWhileBusy == [][\A u \in Tokens : StartsWorker(u) => ~JobBusy(u)]_vars
C30_StatusMoves == [][\A u \in Tokens : StatusStep(u)]_vars

(***************************************************************************)
(* The pure functions of vertical_analysis.py, each called on its own      *)
(* over a grid of arguments.  Numbers are in thousandths.                  *)
(***************************************************************************)
\* the largest magnitude of a raw sentiment of the fine grid, in thousandths
MaxFineSentiment == 1200

\* the calls normalize_sentiment_weak_collapse(raw_sentiment)
SentimentCalls ==
  { [fn |-> "normalize_sentiment_weak_collapse", raw_sentiment |-> x] :
      x \in -MaxFineSentiment..MaxFineSentiment }

\* the coarse grid: prominences 0, 0.5 .. 5.0 and sentiments -4.0, -3.5 .. 4.0
GridStep == 500
ProminenceSteps == 10
SentimentSteps == 8
ProminenceGrid == { GridStep * k : k \in 0..ProminenceSteps }
SentimentGrid == { GridStep * k : k \in -SentimentSteps..SentimentSteps }

\* the lists of tracked narrative prominences
NarrativeProminenceLists == { <<>>, <<0>>, <<2000>>, <<0, 2000>> }

\* the calls assign_entity_state(entity_prom, entity_sent, topic_prom,
\* tracked_narr_proms)
EntityStateCalls ==
  { [fn |-> "assign_entity_state", entity_prom |-> p, entity_sent |-> q,
     topic_prom |-> t, tracked_narr_proms |-> n] :
      p \in ProminenceGrid, q \in SentimentGrid, t \in {0, 3000},
      n \in NarrativeProminenceLists }

\* the calls _topic_state_row(row) and _narr_state_row(row) on a row with
\* the prominence and the raw sentiment of the subject
StateRowCalls ==
  { [fn |-> f, prom |-> p, sent |-> q] :
      f \in {"_topic_state_row", "_narr_state_row"},
      p \in ProminenceGrid, q \in SentimentGrid }

\* the calls assign_under_fire_modifier(prom, sent, outlet): the outlet
\* scores are the tiers 0 .. 5 and the half scores between them
UnderFireCalls ==
  { [fn |-> "assign_under_fire_modifier", prom |-> p, sent |-> q, outlet |-> t] :
      p \in ProminenceGrid, q \in SentimentGrid, t \in ProminenceGrid }

\* the calls auto_detect_companies_and_narratives(columns)
DetectCalls ==
  { [fn |-> "auto_detect_companies_and_narratives", columns |-> h] :
      h \in Range(InputHeaderList) }

\* the (prominence, sentiment) pairs of a narrative on a row
NarrativePairs == { <<p, q>> : p \in {0, 2000, 3000}, q \in {-2000, 0, 1000, 2000} }

\* the calls pick_central_narrative(row): on a row of a file with the three
\* narratives B, A, C, and on a row of a file without narratives
CentralCalls ==
  { [fn |-> "pick_central_narrative", columns |-> NarrativeHeaders,
     b |-> b, a |-> a, c |-> c] :
      b \in NarrativePairs, a \in NarrativePairs, c \in NarrativePairs }
  \cup { [fn |-> "pick_central_narrative", columns |-> BareHeaderList[1],
          b |-> <<0, 0>>, a |-> <<0, 0>>, c |-> <<0, 0>>] }

\* the row of such a call
NarrativeRow(args) ==
  (Narrative_B_Prominence :> Num(args.b[1])) @@ (Narrative_B_Sentiment :> Num(args.b[2]))
    @@ (Narrative_A_Prominence :> Num(args.a[1])) @@ (Narrative_A_Sentiment :> Num(args.a[2]))
    @@ (Narrative_C_Prominence :> Num(args.c[1])) @@ (Narrative_C_Sentiment :> Num(args.c[2]))

\* the header line of the tables of topic rows: the topic prominence under
\* its coded header, the topic sentiment under O_Sent
TopicHeaders ==
  << L_Date, L_Publication, L_Orchestra_Pub_Tier, L_O_Overall_Prominence, L_O_Sent >>

\* a value line of a table of topic rows, dated day (a timestamp, as after
\* line 630 of apply_all_signals)
TopicLine(day, prom, sent) ==
  << Timestamp(Instant(day, 0)), Str(A), Num(3000), Num(prom), Num(sent) >>

\* n times the line
Repeat(line, n) == [i \in 1..n |-> line]

\* the most rows of a table in the current and in the prior window
MaxCurrentRows == 13
MaxPriorRows == 10

\* the tables of one row of varied topic prominence and sentiment, dated
\* RefDay
HotTables ==
  { Table(TopicHeaders, <<TopicLine(RefDay, p, q)>>) :
      p \in {3000, 3500, 4000}, q \in {2500, 3000, 3500} }

\* the tables with cur rows dated RefDay (the current window) and prev rows
\* dated 30 days earlier (the prior window)
VolumeTable(cur, prev) ==
  Table(TopicHeaders,
        Repeat(TopicLine(RefDay, 2000, 1000), cur)
          \o Repeat(TopicLine(RefDay - WINDOW_DAYS, 2000, 1000), prev))

\* the calls compute_topic_signals(df)
TopicSignalCalls ==
  { [fn |-> "compute_topic_signals", df |-> df, vol_current |-> 1, vol_prior |-> 0] :
      df \in HotTables }
  \cup { [fn |-> "compute_topic_signals", df |-> VolumeTable(cur, prev),
          vol_current |-> cur, vol_prior |-> prev] :
            cur \in 1..MaxCurrentRows, prev \in 0..MaxPriorRows }

\* the header line of the tables of entity rows: narrative 1, the entities
\* 1 and 2 with their modifiers
EntityHeaders ==
  << L_Date, L_Publication, L_Orchestra_Pub_Tier, L_O_Sent,
     _narr_cols(1).prom, _narr_cols(1).sent,
     _entity_cols(1).prom, _entity_cols(1).sent, _entity_cols(1).modifier,
     _entity_cols(2).prom, _entity_cols(2).sent, _entity_cols(2).modifier >>

\* the (prominence, sentiment, modifier) of the two entities of a row; an
\* empty modifier is read as NaN
FirstEntityValues ==
  { <<p, q, m>> : p \in {0, 2000, 3000}, q \in {-2000, 1000},
                  m \in {NaN, Str(M_Takedown)} }
SecondEntityValues ==
  { <<p, q, m>> : p \in {0, 3000}, q \in {-2000, 1000}, m \in {NaN, Str(M_Stinger)} }

\* the tables of one row dated RefDay, in an outlet of tier 4
EntityTables ==
  { Table(EntityHeaders,
          << << Timestamp(Instant(RefDay, 0)), Str(A), Num(4000), Num(1000),
                Num(np), Num(1000),
                Num(e1[1]), Num(e1[2]), e1[3],
                Num(e2[1]), Num(e2[2]), e2[3] >> >>) :
      np \in {0, 3000}, e1 \in FirstEntityValues, e2 \in SecondEntityValues }

\* the calls compute_entity_signals(df)
EntitySignalCalls ==
  { [fn |-> "compute_entity_signals", df |-> df] : df \in EntityTables }

\* the mapping of narrative A
NarrativeA ==
  [ key |-> L_Narrative \o A, prominence |-> Narrative_A_Prominence,
    sentiment |-> Narrative_A_Sentiment, state |-> Narrative_A_State ]

\* the end-to-end scenarios: topic, narrative A and entity X as (prominence,
\* sentiment), the outlet score, the number of peers of prominence >= 2, and
\* the state and modifier expected of X
Scenario(t, a, e, outlet, peers, state, modifier) ==
  [t |-> t, a |-> a, e |-> e, outlet |-> outlet, peers |-> peers,
   state |-> state, modifier |-> modifier]

SeedScenarios ==
  << Scenario(<<3000, 1000>>,  <<2000, 1000>>,  <<0, 0>>,        4000, 0, S_OffStage,  M_Overlooked),
     Scenario(<<3000, -3000>>, <<2800, -3000>>, <<0, 0>>,        4000, 2, S_OffStage,  M_GuiltByAssociation),
     Scenario(<<3000, 2000>>,  <<2600, 2000>>,  <<4000, 3000>>,  5000, 0, S_Leader,    M_NarrativeSetter),
     Scenario(<<3000, -2500>>, <<2000, -2000>>, <<3000, -2000>>, 4000, 0, S_UnderFire, M_Takedown),
     Scenario(<<1500, 500>>,   <<0, 0>>,        <<0, 0>>,        3000, 0, S_Absent,    M_NotRelevant),
     Scenario(<<3000, -1000>>, <<0, 0>>,        <<1500, -500>>,  2000, 0, S_UnderFire, M_PeripheralHit) >>

\* prominence and sentiment of the k-th peer of a scenario with `peers'
\* prominent peers
PeerValues(k, peers) == IF k <= peers THEN <<2000, -1000>> ELSE <<0, 0>>

\* the calls _entity_modifier_row(row) for the entity X, Off-Stage on a row
\* of a file with the three narratives B, A, C; of its peers Y and Z, `peers'
\* have prominence 2.0
ModifierRowCalls ==
  { [fn |-> "_entity_modifier_row", columns |-> NarrativeHeaders,
     b |-> b, a |-> a, c |-> c, peers |-> k] :
      b \in NarrativePairs, a \in NarrativePairs, c \in NarrativePairs, k \in 0..2 }

\* the row of such a call
OffStageRow(args) ==
  NarrativeRow(args)
    @@ (L_Topic_Prominence :> Num(3000)) @@ (L_Topic_Sentiment :> Num(1000))
    @@ (Entity_X_Prominence :> Num(0)) @@ (Entity_X_Sentiment :> Num(0))
    @@ (Entity_X_State :> Str(S_OffStage))
    @@ (Entity_Y_Prominence :> Num(PeerValues(1, args.peers)[1]))
    @@ (Entity_Y_Sentiment :> Num(PeerValues(1, args.peers)[2]))
    @@ (L_Entity \o Z \o L__Prominence :> Num(PeerValues(2, args.peers)[1]))
    @@ (L_Entity \o Z \o L__Sentiment :> Num(PeerValues(2, args.peers)[2]))
    @@ (L_Outlet_score :> Num(4000))

\* ENTITY_MAPPINGS[name]
EntityOf(G, name) ==
  G.ENTITY_MAPPINGS[CHOOSE i \in DOMAIN G.ENTITY_MAPPINGS :
                      G.ENTITY_MAPPINGS[i].name = name]

\* the file of a scenario: one value line under SeedHeaders
SeedFile(sc) ==
  Table(SeedHeaders,
        << << Num(sc.t[1]), Num(sc.t[2]), Num(sc.a[1]), Num(sc.a[2]),
              Num(sc.e[1]), Num(sc.e[2]),
              Num(PeerValues(1, sc.peers)[1]), Num(PeerValues(1, sc.peers)[2]),
              Num(PeerValues(2, sc.peers)[1]), Num(PeerValues(2, sc.peers)[2]),
              Num(sc.outlet), Str(<<"A">>), Num(500000) >> >>)

\* the calls process(csv_path) on the file of a scenario
ProcessCalls == { [fn |-> "process", scenario |-> k] : k \in DOMAIN SeedScenarios }

\* the function called on its own returns value
FnReturns(value) ==
  /\ fn_result = NotCalled
  /\ fn_result' = [fn |-> fn_args.fn, value |-> value]
  /\ UNCHANGED <<fn_args, Pass1Vars, Pass2Vars, AppVars>>

Call_normalize_sentiment_weak_collapse ==
  /\ fn_args.fn = "normalize_sentiment_weak_collapse"
  /\ FnReturns(normalize_sentiment_weak_collapse(fn_args.raw_sentiment))

Call_assign_entity_state ==
  /\ fn_args.fn = "assign_entity_state"
  /\ FnReturns(assign_entity_state(fn_args.entity_prom, fn_args.entity_sent,
                                   fn_args.topic_prom, fn_args.tracked_narr_proms))

Call_topic_state_row ==
  /\ fn_args.fn = "_topic_state_row"
  /\ FnReturns(topic_state_row(InitialGlobals,
                               (L_Topic_Prominence :> Num(fn_args.prom))
                                 @@ (L_Topic_Sentiment :> Num(fn_args.sent))))

Call_narr_state_row ==
  /\ fn_args.fn = "_narr_state_row"
  /\ FnReturns(narr_state_row(NarrativeA,
                              (Narrative_A_Prominence :> Num(fn_args.prom))
                                @@ (Narrative_A_Sentiment :> Num(fn_args.sent))))

Call_assign_under_fire_modifier ==
  /\ fn_args.fn = "assign_under_fire_modifier"
  /\ FnReturns(assign_under_fire_modifier(fn_args.prom, fn_args.sent, fn_args.outlet))

Call_auto_detect_companies_and_narratives ==
  /\ fn_args.fn = "auto_detect_companies_and_narratives"
  /\ FnReturns(Detected[fn_args.columns])

\* pick_central_narrative(row) after initialize_mappings_from_csv on the
\* file of the row
Call_pick_central_narrative ==
  /\ fn_args.fn = "pick_central_narrative"
  /\ FnReturns(pick_central_narrative(
                 initialize_mappings_from_csv(InitialGlobals, fn_args.columns),
                 NarrativeRow(fn_args)))

\* _entity_modifier_row(row) of the entity X after
\* initialize_mappings_from_csv on the file of the row
Call_entity_modifier_row ==
  /\ fn_args.fn = "_entity_modifier_row"
  /\ FnReturns(entity_modifier_row(
                 initialize_mappings_from_csv(InitialGlobals, fn_args.columns),
                 EntityOf(initialize_mappings_from_csv(InitialGlobals, fn_args.columns), X),
                 OffStageRow(fn_args)))

Call_compute_topic_signals ==
  /\ fn_args.fn = "compute_topic_signals"
  /\ FnReturns(compute_topic_signals(fn_args.df))

\* compute_entity_signals(df) returns one of the tables it can return
Call_compute_entity_signals ==
  /\ fn_args.fn = "compute_entity_signals"
  /\ \E table \in compute_entity_signals(fn_args.df) : FnReturns(table)

\* process on the file of a scenario, in a fresh interpreter
Call_process ==
  /\ fn_args.fn = "process"
  /\ csv = NoTable
  /\ RunProcess(SeedFile(SeedScenarios[fn_args.scenario]))

\* the calls of the functions
FnCalls ==
  SentimentCalls \cup EntityStateCalls \cup ProcessCalls \cup StateRowCalls
    \cup UnderFireCalls \cup DetectCalls \cup CentralCalls
    \cup ModifierRowCalls \cup TopicSignalCalls
    \cup EntitySignalCalls

InitFunctions ==
  Pass1Idle /\ Pass2Idle /\ AppIdle /\ fn_result = NotCalled /\ fn_args \in FnCalls

NextFunctions ==
  \/ Call_normalize_sentiment_weak_collapse
  \/ Call_assign_entity_state
  \/ Call_process
  \/ Call_topic_state_row
  \/ Call_narr_state_row
  \/ Call_assign_under_fire_modifier
  \/ Call_auto_detect_companies_and_narratives
  \/ Call_pick_central_narrative
  \/ Call_entity_modifier_row
  \/ Call_compute_topic_signals
  \/ Call_compute_entity_signals

SpecFunctions == InitFunctions /\ [][NextFunctions]_vars

(***************************************************************************)
(* Claims about the pure functions                                         *)
(***************************************************************************)
\* the function fn was called on its own and has returned
Returned(fn) == fn_result.fn = fn

\* the weak-collapse rule: (0, 1] to +1, [-1, 0) to -1, 0 to 0, others
\* unchanged
WeakCollapse(x) ==
  IF 0 < x /\ x <= 1000 THEN 1000
  ELSE IF -1000 <= x /\ x < 0 THEN -1000
  ELSE x

\* C15: normalize_sentiment_weak_collapse maps every value in (0, 1] to +1,
\* every value in [-1, 0) to -1, exactly 0 to 0, and leaves every other
\* value unchanged, for all values of a fine fixed-point grid, the values
\* strictly between 0 and 0.01 in magnitude included.
C15_WeakCollapseOnFineGrid ==
  Returned("normalize_sentiment_weak_collapse") =>
    fn_result.value = WeakCollapse(fn_args.raw_sentiment)
\* the entity state decided top to bottom from the entity's prominence and
\* gated sentiment, the topic's prominence and the largest narrative
\* prominence
EntityStateRule(entity_prom, entity_sent, topic_prom, max_narr_prom) ==
  CASE topic_prom > 0 /\ entity_prom = 0 ->
         (IF max_narr_prom > 0 THEN S_OffStage ELSE S_Absent)
    [] ~(topic_prom > 0 /\ entity_prom = 0) /\ entity_prom > 0 /\ entity_sent < 0 ->
         S_UnderFire
    [] entity_prom >= 3000 /\ entity_sent > 0 -> S_Leader
    [] 0 < entity_prom /\ entity_prom < 3000 /\ entity_sent > 0 -> S_SupportingPlayer
    [] OTHER -> S_Undetermined

\* process on the k-th scenario gave X the state and modifier expected
ScenarioAsExpected(k) ==
  /\ ~out.error
  /\ Emitted(1, Entity_X_State) = Str(SeedScenarios[k].state)
  /\ Emitted(1, Entity_X_Modifier) = Str(SeedScenarios[k].modifier)

\* C16: for a row with no pre-existing entity state, the entity state is
\* decided top to bottom from (entity_prom, gated entity_sent, topic_prom,
\* max narrative prominence): topic_prom > 0 and entity_prom = 0 gives
\* Off-Stage if the max narrative prominence is > 0, else Absent;
\* entity_prom > 0 and sent < 0 gives Under Fire; entity_prom >= 3 and
\* sent > 0 gives Leader; 0 < entity_prom < 3 and sent > 0 gives Supporting
\* Player; anything else gives Undetermined.  The six end-to-end scenarios
\* produce the listed state and modifier.
C16_EntityStateCascade ==
  /\ Returned("assign_entity_state") =>
       fn_result.value = EntityStateRule(fn_args.entity_prom, fn_args.entity_sent,
                                         fn_args.topic_prom,
                                         MaxOr0(fn_args.tracked_narr_proms))
  /\ (fn_args.fn = "process" /\ Called) => ScenarioAsExpected(fn_args.scenario)

\* the third scenario was processed: X, of prominence 4 and sentiment 3 in
\* an outlet of score 5, is a Leader and a Narrative Setter
C16_Witness ==
  /\ fn_args.fn = "process" /\ fn_args.scenario = 3 /\ Called
  /\ Val(csv.rows[1], Entity_X_Prominence) = 4000
  /\ Emitted(1, Entity_X_State) = Str(S_Leader)
  /\ Emitted(1, Entity_X_Modifier) = Str(M_NarrativeSetter)
\* the state of a topic or a narrative as the spec lists it, from the
\* prominence and the gated sentiment; low is the label of a subject of low
\* prominence and no negative sentiment
SubjectStateRule(prom, sent, low) ==
  CASE prom = 0 -> S_Absent
    [] prom >= 2500 /\ sent < -2000 -> S_HighRisk
    [] prom >= 2500 /\ -2000 <= sent /\ sent < 0 -> S_Risky
    [] prom >= 2500 /\ sent >= 0 -> S_Healthy
    [] 0 < prom /\ prom < 2500 /\ sent < 0 -> S_AmbientRisk
    [] 0 < prom /\ prom < 2500 /\ sent >= 0 -> low

\* C17: the topic and the narrative state cascades are the same function of
\* (prominence, gated sentiment) up to the label Niche / Peripheral; they
\* partition all inputs as listed (prom = 0: Absent; prom >= 2.5: High Risk
\* if sent < -2, Risky if -2 <= sent < 0, Healthy if sent >= 0; 0 < prom <
\* 2.5: Ambient Risk if sent < 0, else Niche / Peripheral) and never return
\* Undetermined for numeric inputs; prominence 2.5 with sentiment -2.0 is
\* Risky.
C17_TopicAndNarrativeCascade ==
  /\ Returned("_topic_state_row") =>
       /\ fn_result.value
            = SubjectStateRule(fn_args.prom, gated_sentiment(fn_args.prom, fn_args.sent), S_Niche)
       /\ fn_result.value # S_Undetermined
  /\ Returned("_narr_state_row") =>
       /\ fn_result.value
            = SubjectStateRule(fn_args.prom, gated_sentiment(fn_args.prom, fn_args.sent),
                               S_Peripheral)
       /\ fn_result.value # S_Undetermined

\* the topic of prominence exactly 2.5 and sentiment exactly -2.0 is Risky
C17_Witness ==
  /\ Returned("_topic_state_row")
  /\ fn_args.prom = 2500 /\ fn_args.sent = -2000
  /\ fn_result.value = S_Risky

\* the tests of the Under Fire rules in their listed order, on prominence p,
\* sentiment s and outlet t
UnderFireTests(p, s, t) ==
  << p >= 4000 /\ s <= -3000 /\ t = 5000,
     p >= 3000 /\ s <= -2000 /\ t = 4000,
     p >= 3000 /\ s <= -2000 /\ t > 2000,
     p >= 2000 /\ s <= -2000 /\ t <= 3000,
     p >= 2000 /\ -2000 < s /\ s < 0,
     p < 2000 /\ s <= -2000,
     p < 2000 /\ -2000 < s /\ s < 0,
     2000 <= p /\ p < 3000 /\ s <= -2000 /\ t >= 4000 >>

UnderFireLabels ==
  << M_NarrativeShaper, M_Takedown, M_BodyBlow, M_Stinger, M_LightJab,
     M_CollateralDamage, M_PeripheralHit, M_Stinger >>

\* the label of the first test that holds, the empty string when none does
FirstUnderFireRule(p, s, t) ==
  LET tests == UnderFireTests(p, s, t)
      holding == { k \in DOMAIN tests : tests[k] }
  IN IF holding = {} THEN <<>>
     ELSE UnderFireLabels[CHOOSE k \in holding : \A j \in holding : k <= j]

\* C18: assign_under_fire_modifier returns the label of the first rule, in
\* the listed order, whose test holds, and the empty string when none holds;
\* prominence >= 3 with sentiment <= -2 and outlet 4 gives Takedown, and
\* Stinger is never returned for prominence >= 3 with outlet >= 3.
C18_UnderFireFirstRule ==
  Returned("assign_under_fire_modifier") =>
    /\ fn_result.value = FirstUnderFireRule(fn_args.prom, fn_args.sent, fn_args.outlet)
    /\ (fn_args.prom >= 3000 /\ fn_args.sent <= -2000 /\ fn_args.outlet = 4000)
         => fn_result.value = M_Takedown
    /\ (fn_args.prom >= 3000 /\ fn_args.outlet >= 3000)
         => fn_result.value # M_Stinger

\* prominence 3, sentiment -2.0, outlet 4 returned Takedown
C18_Witness ==
  /\ Returned("assign_under_fire_modifier")
  /\ fn_args.prom = 3000 /\ fn_args.sent = -2000 /\ fn_args.outlet = 4000
  /\ fn_result.value = M_Takedown

\* the outlet tiers 0 .. 5
OutletTiers == { 1000 * k : k \in 0..5 }

\* C19: an entity whose state is computed as Under Fire (prominence > 0,
\* gated sentiment < 0) gets a non-empty modifier at every outlet tier 0 .. 5,
\* and 2 <= prominence < 3 with sentiment <= -2 gives Stinger at every tier.
C19_UnderFireLeavesNoBlank ==
  ( /\ Returned("assign_under_fire_modifier")
    /\ fn_args.outlet \in OutletTiers
    /\ assign_entity_state(fn_args.prom,
                           gated_sentiment(fn_args.prom, fn_args.sent),
                           fn_args.prom, <<>>) = S_UnderFire ) =>
    /\ fn_args.prom > 0 /\ fn_args.sent < 0
    /\ fn_result.value # <<>>
    /\ (2000 <= fn_args.prom /\ fn_args.prom < 3000 /\ fn_args.sent <= -2000)
         => fn_result.value = M_Stinger

\* prominence 2.5, sentiment -2.5, outlet 4 returned Stinger by the bridge
C19_Witness ==
  /\ Returned("assign_under_fire_modifier")
  /\ fn_args.prom = 2500 /\ fn_args.sent = -2500 /\ fn_args.outlet = 4000
  /\ fn_result.value = M_Stinger


\* the columns of a narrative mapping that are in the header list
NarrativeColumns(m, columns) ==
  {m.prominence, m.sentiment, m.description, m.state} \cap Range(columns)

\* where the columns of the narrative stored under key first appear
FirstAppearance(d, key, columns) ==
  LET m == d.NARRATIVE_MAPPINGS[CHOOSE i \in DOMAIN d.NARRATIVE_MAPPINGS :
                                  d.NARRATIVE_MAPPINGS[i].key = key]
  IN SetMin({i \in DOMAIN columns : columns[i] \in NarrativeColumns(m, columns)})

\* C23: the narrative tie-precedence list of the schema resolver lists the
\* bound narratives, each once, in the order in which their columns first
\* appear in the header list of the input.
C23_PrecedenceInDiscoveryOrder ==
  Returned("auto_detect_companies_and_narratives") =>
    LET d    == fn_result.value
        prec == d.NARRATIVE_TIE_PRECEDENCE
    IN /\ Range(prec) = {d.NARRATIVE_MAPPINGS[i].key : i \in DOMAIN d.NARRATIVE_MAPPINGS}
       /\ \A i, j \in DOMAIN prec :
            i < j => /\ prec[i] # prec[j]
                     /\ FirstAppearance(d, prec[i], fn_args.columns)
                          < FirstAppearance(d, prec[j], fn_args.columns)


\* the tracked narratives of a call of pick_central_narrative, in their
\* tie-precedence order, each as [key, prom, sent]
TrackedNarratives(args) ==
  LET G == initialize_mappings_from_csv(InitialGlobals, args.columns)
  IN [i \in DOMAIN G.NARRATIVE_TIE_PRECEDENCE |->
        LET m == NarrativeOf(G, G.NARRATIVE_TIE_PRECEDENCE[i])
        IN [key  |-> G.NARRATIVE_TIE_PRECEDENCE[i],
            prom |-> coerce_float(NarrativeRow(args)[m.prominence]),
            sent |-> coerce_float(NarrativeRow(args)[m.sentiment])]]

\* n outranks m: greater prominence, or the same prominence and greater
\* |sentiment|
Outranks(n, m) ==
  \/ n.prom > m.prom
  \/ n.prom = m.prom /\ Abs(n.sent) > Abs(m.sent)

\* the central narrative of a list of tracked narratives: the earliest one
\* that no other outranks
CentralOf(tracked) ==
  tracked[SetMin({i \in DOMAIN tracked :
                    \A j \in DOMAIN tracked : ~Outranks(tracked[j], tracked[i])})]

\* C22: pick_central_narrative returns, for a row with at least one tracked
\* narrative, the narrative of maximum prominence, among those tied the one
\* of greatest |sentiment|, among those still tied the earliest in the
\* tie-precedence list; it returns the empty key only without a tracked
\* narrative.
C22_CentralNarrativeRule ==
  Returned("pick_central_narrative") =>
    LET tracked == TrackedNarratives(fn_args)
    IN IF tracked = <<>> THEN fn_result.value = << <<>>, 0, 0 >>
       ELSE fn_result.value = << CentralOf(tracked).key, CentralOf(tracked).prom,
                                 CentralOf(tracked).sent >>

\* B (3.0, +1.0), A (3.0, -2.0) and C (3.0, +2.0) tie on prominence, A and C
\* on |sentiment| too: A, the earlier of the two, was returned
C22_Witness ==
  /\ Returned("pick_central_narrative")
  /\ fn_args.columns = NarrativeHeaders
  /\ fn_args.b = <<3000, 1000>> /\ fn_args.a = <<3000, -2000>> /\ fn_args.c = <<3000, 2000>>
  /\ fn_result.value = << L_Narrative \o A, 3000, -2000 >>

\* the central narrative of the row of a call, as Pass 1 reports it in the
\* Central_Narrative columns: <<key, prominence, sentiment>>
CentralOfRow(args) ==
  pick_central_narrative(initialize_mappings_from_csv(InitialGlobals, args.columns),
                         OffStageRow(args))

\* C21: the narrative whose (prominence, sentiment) feed the Off-Stage
\* modifier of a row is the row's central narrative, the one Pass 1 reports
\* in Central_Narrative_Key / _Prominence / _Sentiment, also when narratives
\* tie on maximum prominence: the modifier is the Off-Stage modifier of the
\* central narrative's prominence and gated sentiment.
C21_OffStageUsesCentralNarrative ==
  Returned("_entity_modifier_row") =>
    fn_result.value =
      assign_off_stage_modifier(CentralOfRow(fn_args)[2],
                                gated_sentiment(CentralOfRow(fn_args)[2],
                                                CentralOfRow(fn_args)[3]),
                                fn_args.peers)

\* the topic signal name is attached to row r of the table returned
HasTopicSignal(r, name) == name \in Range(fn_result.value.rows[r][L_O_signals].s)

\* C24: Pass 2 attaches the article-level topic signal Hot to a row exactly
\* when the row's topic prominence is >= 3.5 and its topic sentiment is
\* >= 3.0, each condition evaluated on its own value.
C24_HotOnProminenceAndSentiment ==
  Returned("compute_topic_signals") =>
    \A r \in DOMAIN fn_args.df.rows :
      HasTopicSignal(r, G_Hot) <=>
        /\ coerce_float(fn_args.df.rows[r][L_O_Overall_Prominence]) >= 3500
        /\ coerce_float(fn_args.df.rows[r][L_O_Sent]) >= 3000

\* C25: with vol_current and vol_prior the numbers of rows in the current
\* and the prior window, Pass 2 attaches Growing to every row exactly when
\* vol_current >= 1.3 x vol_prior, and Fading exactly when vol_current <=
\* 0.7 x vol_prior, for all volumes, vol_prior = 0 included.
C25_GrowingAndFadingByVolume ==
  Returned("compute_topic_signals") =>
    \A r \in DOMAIN fn_args.df.rows :
      /\ HasTopicSignal(r, G_Growing) <=> 10 * fn_args.vol_current >= 13 * fn_args.vol_prior
      /\ HasTopicSignal(r, G_Fading) <=> 10 * fn_args.vol_current <= 7 * fn_args.vol_prior

\* what compute_entity_signals works out before its row loop on df
ContextOf(df) ==
  EntityContext(EnsureEntityLists(df, _get_entities(df), 1),
                _window_splits(df, L_Date, None), _get_entities(df), _get_narratives(df))

\* the candidate signals (signals_meta) of entity number e on row r of df
CandidatesOf(df, r, e) == signals_meta(ContextOf(df), e, ContextOf(df).df.rows[r])

\* name is a candidate signal of entity number e on row r of df
IsCandidate(df, r, e, name) ==
  \E i \in DOMAIN CandidatesOf(df, r, e) : CandidatesOf(df, r, e)[i].name = name

\* the prominence and the modifier of entity number e on row r of df
PromOn(df, r, e) == row_peers(ContextOf(df), df.rows[r])[e].prom
ModOn(df, r, e) == row_peers(ContextOf(df), df.rows[r])[e].mod

\* C26: for every row and entity e, Captured Narrative (article) is a
\* candidate signal of e exactly when e's prominence on the row is >= 2.5
\* and the prominence of every other tracked entity on the row is < 2.5.
C26_CapturedNarrativeOfSoleProminent ==
  Returned("compute_entity_signals") =>
    \A r \in DOMAIN fn_args.df.rows, e \in DOMAIN _get_entities(fn_args.df) :
      IsCandidate(fn_args.df, r, e, G_CapturedNarrativeArticle) <=>
        /\ PromOn(fn_args.df, r, e) >= 2500
        /\ \A p \in DOMAIN _get_entities(fn_args.df) :
             p # e => PromOn(fn_args.df, r, p) < 2500

\* C27: for every row and entity e, Ricochet Risk (and Cautious
\* Schadenfreude) is a candidate signal of e only if some other tracked
\* entity of the row, a peer and not e itself, bears one of the modifiers
\* Narrative Shaper, Takedown, Body Blow, Stinger, Collateral Damage.
C27_RicochetNeedsPeerModifier ==
  Returned("compute_entity_signals") =>
    \A r \in DOMAIN fn_args.df.rows, e \in DOMAIN _get_entities(fn_args.df) :
      ( \/ IsCandidate(fn_args.df, r, e, G_RicochetRisk)
        \/ IsCandidate(fn_args.df, r, e, G_CautiousSchadenfreude) ) =>
        \E p \in DOMAIN _get_entities(fn_args.df) :
          p # e /\ ModOn(fn_args.df, r, p) \in RicochetModifiers

\* the candidates sorted descending by (sev, struc, outlet, prom, recency):
\* the lists of all candidates in which none is ranked before an earlier one
IsRankOrder(q) == \A i, j \in DOMAIN q : i < j => ~RankedBefore(q[j], q[i])

\* C28: for every row and entity, the signals list Pass 2 emits is the first
\* three entries of the candidate list sorted descending by (severity,
\* structural, outlet, prominence, recency), in that rank order: no dropped
\* candidate outranks a kept one and the names are in rank order, on every
\* run.
C28_EmittedTopThreeInRankOrder ==
  Returned("compute_entity_signals") =>
    \A r \in DOMAIN fn_args.df.rows, e \in DOMAIN _get_entities(fn_args.df) :
      LET cands   == CandidatesOf(fn_args.df, r, e)
          emitted == fn_result.value.rows[r][_entity_cols(_get_entities(fn_args.df)[e]).signals].s
      IN /\ Len(emitted) = Min2(Len(cands), ENTITY_SIGNAL_CAP)
         /\ \E kept \in [DOMAIN emitted -> DOMAIN cands] :
              /\ \A i \in DOMAIN emitted : cands[kept[i]].name = emitted[i]
              /\ \A i, j \in DOMAIN emitted : i < j => kept[i] # kept[j]
              /\ IsRankOrder([i \in DOMAIN emitted |-> cands[kept[i]]])
              /\ \A i \in DOMAIN emitted, d \in DOMAIN cands :
                   (\A j \in DOMAIN emitted : kept[j] # d) => ~RankedBefore(cands[d], cands[kept[i]])
=========================================================================
